---- MODULE Spec2Model ----
(***************************************************************************)
(* Model of the request adapter of the Anki MCP server (src/index.ts):     *)
(* the tool dispatcher, the resource resolver, the query translator and    *)
(* the collection-service calls they issue.  JavaScript values of the      *)
(* loosely typed argument bag are modelled as tagged records, strings as   *)
(* TLA+ strings, and the collection service (yanki-connect) as a           *)
(* collaborator that answers each call or raises an error.                 *)
(***************************************************************************)
EXTENDS Integers, Sequences, FiniteSets

VARIABLES
    decks,   \* the collection's decks: deck name -> total_in_deck
    notes,   \* the collection's note ids
    req,     \* the request being answered: [kind, name, args]
    calls,   \* the collection-service calls the request has issued, in order
    out,     \* the response of the request: [kind |-> "none" | "ok" | "error", ...]
    inflight \* the handler invocations suspended at an await, when requests overlap

vars == <<decks, notes, req, calls, out, inflight>>

----------------------------------------------------------------------------
(* JavaScript values                                                        *)

Undef   == [t |-> "undefined", v |-> 0]
Null    == [t |-> "null", v |-> 0]
NaN     == [t |-> "nan", v |-> 0]
Bool(b) == [t |-> "boolean", v |-> b]
Num(n)  == [t |-> "number", v |-> n]
Str(s)  == [t |-> "string", v |-> s]
Arr(a)  == [t |-> "array", v |-> a]
Obj(ks) == [t |-> "object", v |-> ks]   \* a plain object, by its keys

\* Array.isArray(x)
IsArray(x) == x.t = "array"

\* Boolean(x), and the truthiness test of `if (x)` and `x || y`
Truthy(x) ==
    CASE x.t = "undefined" -> FALSE
      [] x.t = "null"      -> FALSE
      [] x.t = "nan"       -> FALSE
      [] x.t = "boolean"   -> x.v
      [] x.t = "number"    -> x.v # 0
      [] x.t = "string"    -> x.v # ""
      [] OTHER             -> TRUE

Digits == <<"0", "1", "2", "3", "4", "5", "6", "7", "8", "9">>

RECURSIVE NatToString(_)
NatToString(n) ==
    IF n < 10 THEN Digits[n + 1]
    ELSE NatToString(n \div 10) \o Digits[(n % 10) + 1]

IntToString(n) == IF n < 0 THEN "-" \o NatToString(0 - n) ELSE NatToString(n)

CharAt(s, i) == SubSeq(s, i, i)

\* s.startsWith(p)
StartsWith(s, p) == Len(s) >= Len(p) /\ SubSeq(s, 1, Len(p)) = p

\* s.slice(n) for 0 <= n
SliceFrom(s, n) == SubSeq(s, n + 1, Len(s))

\* s.includes(sub)
Includes(s, sub) ==
    \E i \in 1..(Len(s) + 1) :
        i + Len(sub) - 1 <= Len(s) /\ SubSeq(s, i, i + Len(sub) - 1) = sub

IsSpace(c) == c \in {" ", "\t", "\n"}

RECURSIVE TrimStart(_)
TrimStart(s) ==
    IF Len(s) > 0 /\ IsSpace(CharAt(s, 1)) THEN TrimStart(SliceFrom(s, 1)) ELSE s

RECURSIVE TrimEnd(_)
TrimEnd(s) ==
    IF Len(s) > 0 /\ IsSpace(CharAt(s, Len(s)))
    THEN TrimEnd(SubSeq(s, 1, Len(s) - 1)) ELSE s

\* s.trim()
Trim(s) == TrimEnd(TrimStart(s))

DigitValue(c) == CHOOSE d \in 0..9 : Digits[d + 1] = c

IsDigit(c) == \E d \in 0..9 : Digits[d + 1] = c

RECURSIVE ParseNat(_)
ParseNat(s) ==
    IF Len(s) = 0 THEN 0
    ELSE 10 * ParseNat(SubSeq(s, 1, Len(s) - 1)) + DigitValue(CharAt(s, Len(s)))

AllDigits(s) == Len(s) > 0 /\ \A i \in 1..Len(s) : IsDigit(CharAt(s, i))

\* Number(s) of a string: decimal integers, the empty string, anything else
StringToNumber(s) ==
    LET w == Trim(s) IN
    IF w = "" THEN Num(0)
    ELSE IF AllDigits(w) THEN Num(ParseNat(w))
    ELSE IF StartsWith(w, "-") /\ AllDigits(SliceFrom(w, 1))
         THEN Num(0 - ParseNat(SliceFrom(w, 1)))
    ELSE NaN

RECURSIVE ToString(_)
RECURSIVE JoinValues(_, _)

\* a.join(sep): undefined and null elements become the empty string
JoinValues(a, sep) ==
    IF Len(a) = 0 THEN ""
    ELSE LET h == IF Head(a).t \in {"undefined", "null"} THEN "" ELSE ToString(Head(a))
         IN IF Len(a) = 1 THEN h ELSE h \o sep \o JoinValues(Tail(a), sep)

\* String(x)
ToString(x) ==
    CASE x.t = "undefined" -> "undefined"
      [] x.t = "null"      -> "null"
      [] x.t = "nan"       -> "NaN"
      [] x.t = "boolean"   -> IF x.v THEN "true" ELSE "false"
      [] x.t = "number"    -> IntToString(x.v)
      [] x.t = "string"    -> x.v
      [] x.t = "object"    -> "[object Object]"
      [] OTHER             -> JoinValues(x.v, ",")

\* Number(x)
ToNumber(x) ==
    CASE x.t = "undefined" -> NaN
      [] x.t = "null"      -> Num(0)
      [] x.t = "nan"       -> NaN
      [] x.t = "boolean"   -> IF x.v THEN Num(1) ELSE Num(0)
      [] x.t = "number"    -> x
      [] x.t = "string"    -> StringToNumber(x.v)
      [] OTHER             -> StringToNumber(ToString(x))

\* a.map(Number) and a.map(String)
MapNumber(a) == [i \in 1..Len(a) |-> ToNumber(a[i])]
MapString(a) == [i \in 1..Len(a) |-> ToString(a[i])]

\* a < b and a > b on numbers: every comparison with NaN is false
JsLt(a, b) == a.t = "number" /\ b.t = "number" /\ a.v < b.v
JsGt(a, b) == a.t = "number" /\ b.t = "number" /\ a.v > b.v

\* Math.min(a, b): NaN if either is NaN
MathMin(a, b) ==
    IF a.t = "nan" \/ b.t = "nan" THEN NaN
    ELSE IF a.v < b.v THEN a ELSE b

\* a.slice(0, end) for a number end: NaN counts as 0, a negative end counts
\* from the end of the array
SliceTo(a, end) ==
    LET e == IF end.t = "nan" THEN 0 ELSE end.v
        k == IF e < 0 THEN (IF Len(a) + e < 0 THEN 0 ELSE Len(a) + e)
             ELSE (IF e < Len(a) THEN e ELSE Len(a))
    IN SubSeq(a, 1, k)

\* a thrown error object and its `${error}`
Thrown(name, message) == [name |-> name, message |-> message]
Error(message) == Thrown("Error", message)
ErrorToString(e) == e.name \o ": " \o e.message

----------------------------------------------------------------------------
(* Query translator                                                         *)

\* the translator with the offset of "is" off by one
formatQuery_WrongOffset(query) ==
    IF StartsWith(query, "deck") THEN "deck:" \o SliceFrom(query, 4)
    ELSE IF StartsWith(query, "is") THEN "is:" \o SliceFrom(query, 3)
    ELSE query

formatQuery(query) ==
    IF StartsWith(query, "deck") THEN "deck:" \o SliceFrom(query, 4)
    ELSE IF StartsWith(query, "is") THEN "is:" \o SliceFrom(query, 2)
    ELSE query

----------------------------------------------------------------------------
(* Bounds and input domains                                                 *)

\* the longest array of an argument bag
MaxIds == 2

\* deck names, in the order the service lists them
DeckOrder == <<"Default", "Parent::Child", "Test", "undefined">>
\* the decks of the collection at the start
DeckNames == {"Default", "Test"}

NoteIds == {1, 2}
CardIds == {1, 2}

\* the errors the collection service raises
ServiceErrors == {Error("fetch failed"), Error("deck was not found")}

\* what the service does with the n calls of a request: the positions of the
\* calls it fails and the error it raises then
FailPlans(n) ==
    {[fail |-> {}, em |-> Error("fetch failed")]}
        \cup [fail : (SUBSET (1..n)) \ {{}}, em : ServiceErrors]

RECURSIVE SeqsUpTo(_, _)
SeqsUpTo(S, n) ==
    IF n = 0 THEN {<<>>}
    ELSE LET T == SeqsUpTo(S, n - 1)
         IN T \cup {Append(q, x) : q \in {t \in T : Len(t) = n - 1}, x \in S}

\* a request without an argument bag
NoArgs == Undef

\* values of a confirmation flag
FlagVals == {Undef, Null, Bool(FALSE), Bool(TRUE), Str("false"), Str("true"),
             Str(""), Num(0), Num(1)}

\* identifiers and names as callers write them
IdVals   == {Num(0), Num(1), Num(2), Str("2")}
NameVals == {Str(""), Str("Test"), Str("Gone")}

SingularIds   == {Undef, Null} \cup IdVals
PluralIds     == {Undef, Str("1")} \cup {Arr(a) : a \in SeqsUpTo(IdVals, MaxIds)}
SingularNames == {Undef, Null} \cup NameVals
PluralNames   == {Undef, Str("Test")} \cup {Arr(a) : a \in SeqsUpTo(NameVals, MaxIds)}

\* a few targets, for operations with other arguments of interest
FewPluralIds   == {Undef, Arr(<<>>), Arr(<<Num(1)>>), Arr(<<Num(1), Num(2)>>)}
FewSingularIds == {Undef, Num(2)}

\* the two fields of a singular/plural pair as callers fill them: the plural
\* field alone, the singular field with no array beside it, and both
IdPairs ==
    [plural : PluralIds, singular : {Undef}]
        \cup [plural : {Undef, Str("1")}, singular : SingularIds]
        \cup [plural : FewPluralIds, singular : FewSingularIds]
NamePairs ==
    [plural : PluralNames, singular : {Undef}]
        \cup [plural : {Undef, Str("Test")}, singular : SingularNames]
        \cup [plural : {Arr(<<Str("Test")>>)}, singular : {Str("Gone")}]

\* a failure plan for an operation that stops at its first failed call
FirstFailure(n) ==
    {[fail |-> {}, em |-> Error("fetch failed")]}
        \cup [fail : {{k} : k \in 1..n}, em : ServiceErrors]

----------------------------------------------------------------------------
(* Requests, calls and responses                                            *)

\* no handler is suspended: requests are answered one after the other
NoFlights == <<>>

NoReq == [kind |-> "none", name |-> "", args |-> NoArgs]
NoOut == [kind |-> "none", msg |-> "", result |-> <<>>]

\* a response: the returned content, or the thrown error's message
Ok(result) == [kind |-> "ok", msg |-> "", result |-> result]
Err(e)     == [kind |-> "error", msg |-> e.message, result |-> <<>>]

\* the k-th call of a request: client.<api>(arg); it raises if the plan says so
Call(api, arg, k, plan) == [api |-> api, arg |-> arg, ok |-> k \notin plan.fail]

\* a call together with what the service answered
CallRet(api, arg, k, plan, ret) ==
    [api |-> api, arg |-> arg, ok |-> k \notin plan.fail, ret |-> ret]

\* what a handler did: the calls it issued and its response
Done(cs, o) == [calls |-> cs, out |-> o]

\* catch (error) { throw new Error(`<hint> Error: ${error}`) }
Wrap(hint, e) == Error(hint \o " Error: " \o ErrorToString(e))

RECURSIVE JoinStrings(_, _)
JoinStrings(a, sep) ==
    IF Len(a) = 0 THEN ""
    ELSE IF Len(a) = 1 THEN a[1]
    ELSE a[1] \o sep \o JoinStrings(Tail(a), sep)

\* Object.keys(await client.deck.deckNamesAndIds()) for the collection d
DeckKeys(d) == SelectSeq(DeckOrder, LAMBDA n : n \in DOMAIN d)

\* the collection after the service carried out the successful calls cs
RECURSIVE DecksAfter(_, _)
DecksAfter(d, cs) ==
    IF Len(cs) = 0 THEN d
    ELSE LET c  == Head(cs)
             d1 == IF c.api = "deleteDecks" /\ c.ok
                   THEN [n \in DOMAIN d \ {c.arg[i] : i \in 1..Len(c.arg)} |-> d[n]]
                   ELSE IF c.api = "createDeck" /\ c.ok
                   THEN [n \in DOMAIN d \cup {c.arg} |-> IF n \in DOMAIN d THEN d[n] ELSE 0]
                   ELSE d
         IN DecksAfter(d1, Tail(cs))

RECURSIVE NotesAfter(_, _)
NotesAfter(ns, cs) ==
    IF Len(cs) = 0 THEN ns
    ELSE LET c  == Head(cs)
             n1 == IF c.api = "deleteNotes" /\ c.ok
                   THEN {n \in ns : \A i \in 1..Len(c.arg) : c.arg[i] # Num(n)}
                   ELSE IF c.api = "addNote" /\ c.ok THEN ns \cup {3}
                   ELSE ns
         IN NotesAfter(n1, Tail(cs))

----------------------------------------------------------------------------
(* Argument normalizer: the singular/plural convention                      *)

\* if (args.xs && Array.isArray(args.xs)) xs = args.xs.map(Number);
\* else if (args.x) xs = [Number(args.x)]; else throw ...
ResolveIds(plural, singular) ==
    IF Truthy(plural) /\ IsArray(plural) THEN [ok |-> TRUE, v |-> MapNumber(plural.v)]
    ELSE IF Truthy(singular) THEN [ok |-> TRUE, v |-> <<ToNumber(singular)>>]
    ELSE [ok |-> FALSE, v |-> <<>>]

\* the same with .map(String) and String(args.x)
ResolveNames(plural, singular) ==
    IF Truthy(plural) /\ IsArray(plural) THEN [ok |-> TRUE, v |-> MapString(plural.v)]
    ELSE IF Truthy(singular) THEN [ok |-> TRUE, v |-> <<ToString(singular)>>]
    ELSE [ok |-> FALSE, v |-> <<>>]

EitherDeckNamesMsg  == "Either 'deckNames' array or 'deckName' string must be provided"
EitherNoteIdsMsg    == "Either 'noteIds' array or 'noteId' must be provided"
EitherCardIdsMsg    == "Either 'cardIds' array or 'cardId' must be provided"
EitherModelNamesMsg == "Either 'modelNames' array or 'modelName' must be provided"
AtLeastOneNoteMsg   == "At least one note ID must be provided"
AtLeastOneCardMsg   == "At least one card ID must be provided"
AtLeastOneModelMsg  == "At least one model name must be provided"

----------------------------------------------------------------------------
(* Destructive operations                                                   *)

ConfirmDeleteMsg ==
    "Deletion requires confirmDelete: true to prevent accidental deletions. This action cannot be undone!"
ConfirmResetMsg ==
    "Reset requires confirmReset: true to prevent accidental progress loss. This action cannot be undone!"

\* reading a property of the undefined member of an empty object
TypeErrorOf(prop) ==
    Thrown("TypeError", "Cannot read properties of undefined (reading '" \o prop \o "')")

DeckNotFoundMsg(deckName, d) ==
    "Deck '" \o deckName \o "' not found. Available decks: "
        \o JoinStrings(DeckKeys(d), ", ")

\* a gate that only an explicit false closes
Confirmed_UnlessFalse(flag) == flag # Bool(FALSE)

\* the confirmation test of delete_deck, delete_notes and forget_cards:
\* Boolean(args.confirmX)
Confirmed(flag) == Truthy(flag)

\* Object.values(await client.deck.getDeckStats({decks: names})): the stats
\* of the decks the collection has
DeckStats(names) ==
    LET known == SelectSeq(names, LAMBDA n : n \in DOMAIN decks)
    IN  [i \in 1..Len(known) |-> [name |-> known[i], total_in_deck |-> decks[known[i]]]]

\* a total that counts the entries of the answer
totalCards_CountEntries(deckStats) == Len(deckStats)

\* stats = Object.values(deckStats)[0]; stats ? stats.total_in_deck : 0
totalCards(deckStats) == IF Len(deckStats) > 0 THEN deckStats[1].total_in_deck ELSE 0

\* entry: whether getDeckStats answers with an entry for the deck
delete_deck(args, plan, entry) ==
    LET deckName == ToString(args.deckName)
        deckStats == IF entry THEN DeckStats(<<deckName>>) ELSE <<>>
        c1 == CallRet("deckNamesAndIds", <<>>, 1, plan, DeckKeys(decks))
        c2 == CallRet("getDeckStats", <<deckName>>, 2, plan, deckStats)
        c3 == Call("deleteDecks", <<deckName>>, 3, plan)
        catch(e) ==
            IF Includes(e.message, "not found") \/ Includes(e.message, "confirmDelete")
            THEN Err(e)
            ELSE Err(Wrap("Failed to delete deck. Make sure Anki is running and the deck exists.", e))
    IN  IF ~Confirmed(args.confirmDelete) THEN Done(<<>>, catch(Error(ConfirmDeleteMsg)))
        ELSE IF ~c1.ok THEN Done(<<c1>>, catch(plan.em))
        ELSE IF deckName \notin DOMAIN decks
             THEN Done(<<c1>>, catch(Error(DeckNotFoundMsg(deckName, decks))))
        ELSE IF ~c2.ok THEN Done(<<c1, c2>>, catch(plan.em))
        ELSE IF ~c3.ok THEN Done(<<c1, c2, c3>>, catch(plan.em))
        ELSE Done(<<c1, c2, c3>>,
                  Ok([success |-> TRUE, deck_name |-> deckName,
                      cards_deleted |-> totalCards(deckStats)]))

\* cards of a note, as notesInfo reports them
NoteCards(n) == IF n = 1 THEN <<11>> ELSE <<21, 22>>

\* notesInfo answers an id it does not know with an empty object
KnownNote(id) == id.t = "number" /\ id.v \in notes

RECURSIVE SumCards(_)
SumCards(ids) ==
    IF Len(ids) = 0 THEN 0 ELSE Len(NoteCards(Head(ids).v)) + SumCards(Tail(ids))

delete_notes(args, plan) ==
    LET r  == ResolveIds(args.noteIds, args.noteId)
        noteIds == r.v
        c1 == Call("notesInfo", noteIds, 1, plan)
        c2 == Call("deleteNotes", noteIds, 2, plan)
        catch(e) ==
            IF Includes(e.message, "confirmDelete") THEN Err(e)
            ELSE Err(Wrap("Failed to delete notes. Make sure Anki is running and note IDs are valid.", e))
    IN  IF ~Confirmed(args.confirmDelete) THEN Done(<<>>, catch(Error(ConfirmDeleteMsg)))
        ELSE IF ~r.ok THEN Done(<<>>, catch(Error(EitherNoteIdsMsg)))
        ELSE IF Len(noteIds) = 0 THEN Done(<<>>, catch(Error(AtLeastOneNoteMsg)))
        ELSE IF ~c1.ok THEN Done(<<c1>>, catch(plan.em))
        ELSE IF \E i \in 1..Len(noteIds) : ~KnownNote(noteIds[i])
             THEN Done(<<c1>>, catch(TypeErrorOf("length")))
        ELSE IF ~c2.ok THEN Done(<<c1, c2>>, catch(plan.em))
        ELSE Done(<<c1, c2>>,
                  Ok([success |-> TRUE, deleted_notes |-> Len(noteIds),
                      deleted_cards |-> SumCards(noteIds), note_ids |-> noteIds]))

\* cardsInfo answers an id it does not know with an empty object
KnownCard(id) == id.t = "number" /\ id.v \in CardIds

\* reviews of a card, as cardsInfo reports them: card.reps || 0
CardReps(id) == IF KnownCard(id) THEN id.v + 2 ELSE 0

RECURSIVE SumReps(_)
SumReps(ids) == IF Len(ids) = 0 THEN 0 ELSE CardReps(Head(ids)) + SumReps(Tail(ids))

forget_cards(args, plan) ==
    LET r  == ResolveIds(args.cardIds, args.cardId)
        cardIds == r.v
        c1 == Call("cardsInfo", cardIds, 1, plan)
        c2 == Call("forgetCards", cardIds, 2, plan)
        catch(e) ==
            IF Includes(e.message, "confirmReset") THEN Err(e)
            ELSE Err(Wrap("Failed to forget cards. Make sure Anki is running and card IDs are valid.", e))
    IN  IF ~Confirmed(args.confirmReset) THEN Done(<<>>, catch(Error(ConfirmResetMsg)))
        ELSE IF ~r.ok THEN Done(<<>>, catch(Error(EitherCardIdsMsg)))
        ELSE IF Len(cardIds) = 0 THEN Done(<<>>, catch(Error(AtLeastOneCardMsg)))
        ELSE IF ~c1.ok THEN Done(<<c1>>, catch(plan.em))
        ELSE IF ~c2.ok THEN Done(<<c1, c2>>, catch(plan.em))
        ELSE Done(<<c1, c2>>,
                  Ok([success |-> TRUE, cards_reset |-> Len(cardIds),
                      total_reviews_lost |-> SumReps(cardIds), card_ids |-> cardIds]))

----------------------------------------------------------------------------
(* Operations on a singular/plural target                                   *)

get_deck_stats(args, plan) ==
    LET r  == ResolveNames(args.deckNames, args.deckName)
        deckNames == r.v
        c1 == Call("getDeckStats", deckNames, 1, plan)
        catch(e) ==
            Err(Wrap("Failed to get deck statistics. Make sure Anki is running and deck names are correct.", e))
    IN  IF ~r.ok THEN Done(<<>>, catch(Error(EitherDeckNamesMsg)))
        ELSE IF ~c1.ok THEN Done(<<c1>>, catch(plan.em))
        ELSE Done(<<c1>>, Ok(DeckStats(deckNames)))

\* Number(x) || d
NumberOr(x, d) == IF Truthy(ToNumber(x)) THEN ToNumber(x) ELSE Num(d)

\* the review counts getNumCardsReviewedByDay reports, latest day first
ReviewHistory == <<5, 3, 4>>

RECURSIVE SumSeq(_)
SumSeq(q) == IF Len(q) = 0 THEN 0 ELSE Head(q) + SumSeq(Tail(q))

get_deck_performance(args, plan) ==
    LET days == NumberOr(args.days, 30)
        r  == ResolveNames(args.deckNames, args.deckName)
        \* if no specific decks are provided, analyze all decks
        c0 == Call("deckNames", <<>>, 1, plan)
        pre == IF r.ok THEN <<>> ELSE <<c0>>
        deckNames == IF r.ok THEN r.v ELSE DeckKeys(decks)
        c1 == Call("getDeckStats", deckNames, Len(pre) + 1, plan)
        c2 == Call("getNumCardsReviewedByDay", <<>>, Len(pre) + 2, plan)
        catch(e) ==
            Err(Wrap("Failed to get deck performance. Make sure Anki is running and deck names are correct.", e))
    IN  IF ~r.ok /\ ~c0.ok THEN Done(<<c0>>, catch(plan.em))
        ELSE IF ~c1.ok THEN Done(pre \o <<c1>>, catch(plan.em))
        ELSE IF ~c2.ok THEN Done(pre \o <<c1, c2>>, catch(plan.em))
        ELSE Done(pre \o <<c1, c2>>,
                  Ok([analysis_period_days |-> days,
                      total_recent_reviews |-> SumSeq(SliceTo(ReviewHistory, days)),
                      deck_performance |-> DeckStats(deckNames)]))

get_note_info_detailed(args, plan) ==
    LET r  == ResolveIds(args.noteIds, args.noteId)
        noteIds == r.v
        c1 == Call("notesInfo", noteIds, 1, plan)
        catch(e) ==
            Err(Wrap("Failed to get note information. Make sure Anki is running and note IDs are valid.", e))
    IN  IF ~r.ok THEN Done(<<>>, catch(Error(EitherNoteIdsMsg)))
        ELSE IF Len(noteIds) = 0 THEN Done(<<>>, catch(Error(AtLeastOneNoteMsg)))
        ELSE IF ~c1.ok THEN Done(<<c1>>, catch(plan.em))
        ELSE Done(<<c1>>, Ok([i \in 1..Len(noteIds) |->
                                 [note_id |-> IF KnownNote(noteIds[i]) THEN noteIds[i] ELSE Undef]]))

FieldsRequiredMsg == "Fields object must be provided with at least one field to update"

\* the calls issued up to and including the first that raises
UpToFirstFailure(cs) ==
    LET failed == {k \in 1..Len(cs) : ~cs[k].ok}
    IN  IF failed = {} THEN cs
        ELSE SubSeq(cs, 1, CHOOSE k \in failed : \A j \in failed : k <= j)

\* a loop that gives up at the first update that fails
UpdateCalls_StopAtFailure(noteIds, fields, plan) ==
    UpToFirstFailure([i \in 1..Len(noteIds) |->
        Call("updateNoteFields", [id |-> noteIds[i], fields |-> fields], i, plan)])

\* for (const noteId of noteIds) { try { await updateNoteFields } catch { } }:
\* the i-th note is updated by the i-th call, whatever became of the others
UpdateCalls(noteIds, fields, plan) ==
    [i \in 1..Len(noteIds) |->
        Call("updateNoteFields", [id |-> noteIds[i], fields |-> fields], i, plan)]

UpdateResults(cs, plan) ==
    [i \in 1..Len(cs) |->
        [note_id |-> cs[i].arg.id, success |-> cs[i].ok,
         error |-> IF cs[i].ok THEN "" ELSE ErrorToString(plan.em)]]

update_note_fields(args, plan) ==
    LET r  == ResolveIds(args.noteIds, args.noteId)
        noteIds == r.v
        fields == args.fields
        cs == UpdateCalls(noteIds, fields, plan)
        results == UpdateResults(cs, plan)
        successCount == Cardinality({i \in 1..Len(results) : results[i].success})
        catch(e) ==
            Err(Wrap("Failed to update note fields. Make sure Anki is running, note IDs are valid, and field names exist in the note type.", e))
    IN  IF ~r.ok THEN Done(<<>>, catch(Error(EitherNoteIdsMsg)))
        ELSE IF ~Truthy(fields) \/ Len(fields.v) = 0
             THEN Done(<<>>, catch(Error(FieldsRequiredMsg)))
        ELSE Done(cs, Ok([total_notes |-> Len(noteIds),
                          successful_updates |-> successCount,
                          failed_updates |-> Len(results) - successCount,
                          updated_fields |-> fields.v,
                          results |-> results]))

TagsRequiredMsg == "Tags array must be provided with at least one tag"

add_tags_to_notes(args, plan) ==
    LET r  == ResolveIds(args.noteIds, args.noteId)
        noteIds == r.v
        tags == args.tags
        c1 == Call("addTags", [notes |-> noteIds, tags |-> JoinValues(tags.v, " ")], 1, plan)
        catch(e) ==
            Err(Wrap("Failed to add tags to notes. Make sure Anki is running and note IDs are valid.", e))
    IN  IF ~r.ok THEN Done(<<>>, catch(Error(EitherNoteIdsMsg)))
        ELSE IF ~IsArray(tags) \/ Len(tags.v) = 0
             THEN Done(<<>>, catch(Error(TagsRequiredMsg)))
        ELSE IF ~c1.ok THEN Done(<<c1>>, catch(plan.em))
        ELSE Done(<<c1>>, Ok([success |-> TRUE, notes_updated |-> Len(noteIds),
                              tags_added |-> tags.v, note_ids |-> noteIds]))

remove_tags_from_notes(args, plan) ==
    LET r  == ResolveIds(args.noteIds, args.noteId)
        noteIds == r.v
        tags == args.tags
        c1 == Call("removeTags", [notes |-> noteIds, tags |-> JoinValues(tags.v, " ")], 1, plan)
        catch(e) ==
            Err(Wrap("Failed to remove tags from notes. Make sure Anki is running and note IDs are valid.", e))
    IN  IF ~r.ok THEN Done(<<>>, catch(Error(EitherNoteIdsMsg)))
        ELSE IF ~IsArray(tags) \/ Len(tags.v) = 0
             THEN Done(<<>>, catch(Error(TagsRequiredMsg)))
        ELSE IF ~c1.ok THEN Done(<<c1>>, catch(plan.em))
        ELSE Done(<<c1>>, Ok([success |-> TRUE, notes_updated |-> Len(noteIds),
                              tags_removed |-> tags.v, note_ids |-> noteIds]))

get_card_info_detailed(args, plan) ==
    LET r  == ResolveIds(args.cardIds, args.cardId)
        cardIds == r.v
        c1 == Call("cardsInfo", cardIds, 1, plan)
        catch(e) ==
            Err(Wrap("Failed to get detailed card information. Make sure Anki is running and card IDs are valid.", e))
    IN  IF ~r.ok THEN Done(<<>>, catch(Error(EitherCardIdsMsg)))
        ELSE IF Len(cardIds) = 0 THEN Done(<<>>, catch(Error(AtLeastOneCardMsg)))
        ELSE IF ~c1.ok THEN Done(<<c1>>, catch(plan.em))
        \* cleanWithRegex(card.question) of an empty object
        ELSE IF \E i \in 1..Len(cardIds) : ~KnownCard(cardIds[i])
             THEN Done(<<c1>>, catch(TypeErrorOf("replace")))
        ELSE Done(<<c1>>, Ok([i \in 1..Len(cardIds) |->
                                 [card_id |-> cardIds[i], reviews |-> CardReps(cardIds[i])]]))

suspend_cards(args, plan) ==
    LET suspend == Truthy(args.suspend)
        r  == ResolveIds(args.cardIds, args.cardId)
        cardIds == r.v
        c1 == Call(IF suspend THEN "suspend" ELSE "unsuspend", cardIds, 1, plan)
        catch(e) ==
            Err(Wrap("Failed to suspend/unsuspend cards. Make sure Anki is running and card IDs are valid.", e))
    IN  IF ~r.ok THEN Done(<<>>, catch(Error(EitherCardIdsMsg)))
        ELSE IF Len(cardIds) = 0 THEN Done(<<>>, catch(Error(AtLeastOneCardMsg)))
        ELSE IF ~c1.ok THEN Done(<<c1>>, catch(plan.em))
        ELSE Done(<<c1>>, Ok([success |-> TRUE,
                              action |-> IF suspend THEN "suspended" ELSE "unsuspended",
                              total_cards |-> Len(cardIds), card_ids |-> cardIds]))

set_card_due_date(args, plan) ==
    LET days == ToString(args.days)
        r  == ResolveIds(args.cardIds, args.cardId)
        cardIds == r.v
        c1 == Call("setDueDate", [cards |-> cardIds, days |-> days], 1, plan)
        catch(e) ==
            Err(Wrap("Failed to set card due dates. Make sure Anki is running, card IDs are valid, and days format is correct (e.g., '0', '1', '3-7').", e))
    IN  IF ~r.ok THEN Done(<<>>, catch(Error(EitherCardIdsMsg)))
        ELSE IF Len(cardIds) = 0 THEN Done(<<>>, catch(Error(AtLeastOneCardMsg)))
        ELSE IF ~c1.ok THEN Done(<<c1>>, catch(plan.em))
        ELSE Done(<<c1>>, Ok([success |-> TRUE, total_cards |-> Len(cardIds),
                              due_date_spec |-> days, card_ids |-> cardIds]))

MinEase == 1300
MaxEase == 4000

EaseCountMsg  == "Number of ease factors must match number of card IDs"
EitherEaseMsg == "Either 'easeFactors' array or 'easeFactor' must be provided"
EaseRangeMsg(ease) ==
    "Ease factor " \o ToString(ease) \o " is outside typical range (1300-4000). Use with caution."

\* a range test without its lower bound
OutOfRange_UpperOnly(ease) == JsGt(ease, Num(MaxEase))

\* for (const ease of easeFactors) if (ease < 1300 || ease > 4000) throw ...
OutOfRange(ease) == JsLt(ease, Num(MinEase)) \/ JsGt(ease, Num(MaxEase))

set_card_ease_factors(args, plan) ==
    LET r  == ResolveIds(args.cardIds, args.cardId)
        cardIds == r.v
        plural == Truthy(args.easeFactors) /\ IsArray(args.easeFactors)
        easeFactors ==
            IF plural THEN MapNumber(args.easeFactors.v)
            ELSE [i \in 1..Len(cardIds) |-> ToNumber(args.easeFactor)]
        bad == {i \in 1..Len(easeFactors) : OutOfRange(easeFactors[i])}
        firstBad == CHOOSE i \in bad : \A j \in bad : i <= j
        c1 == Call("setEaseFactors", [cards |-> cardIds, easeFactors |-> easeFactors], 1, plan)
        catch(e) ==
            Err(Wrap("Failed to set card ease factors. Make sure Anki is running, card IDs are valid, and ease factors are in reasonable range (1300-4000).", e))
    IN  IF ~r.ok THEN Done(<<>>, catch(Error(EitherCardIdsMsg)))
        ELSE IF Len(cardIds) = 0 THEN Done(<<>>, catch(Error(AtLeastOneCardMsg)))
        ELSE IF plural /\ Len(easeFactors) # Len(cardIds)
             THEN Done(<<>>, catch(Error(EaseCountMsg)))
        ELSE IF ~plural /\ ~Truthy(args.easeFactor)
             THEN Done(<<>>, catch(Error(EitherEaseMsg)))
        ELSE IF bad # {} THEN Done(<<>>, catch(Error(EaseRangeMsg(easeFactors[firstBad]))))
        ELSE IF ~c1.ok THEN Done(<<c1>>, catch(plan.em))
        ELSE Done(<<c1>>, Ok([success |-> TRUE, total_cards |-> Len(cardIds),
                              ease_factors |-> easeFactors, card_ids |-> cardIds]))

get_card_intervals(args, plan) ==
    LET includeHistory == Truthy(args.includeHistory)
        r  == ResolveIds(args.cardIds, args.cardId)
        cardIds == r.v
        c1 == Call("getIntervals", [cards |-> cardIds, complete |-> includeHistory], 1, plan)
        catch(e) ==
            Err(Wrap("Failed to get card intervals. Make sure Anki is running and card IDs are valid.", e))
    IN  IF ~r.ok THEN Done(<<>>, catch(Error(EitherCardIdsMsg)))
        ELSE IF Len(cardIds) = 0 THEN Done(<<>>, catch(Error(AtLeastOneCardMsg)))
        ELSE IF ~c1.ok THEN Done(<<c1>>, catch(plan.em))
        ELSE Done(<<c1>>, Ok([include_history |-> includeHistory,
                              card_intervals |-> [i \in 1..Len(cardIds) |-> [card_id |-> cardIds[i]]]]))

\* the note types of the collection
ModelNames == {"Basic", "Test"}

get_model_info(args, plan) ==
    LET r  == ResolveNames(args.modelNames, args.modelName)
        modelNames == r.v
        c1 == Call("findModelsByName", modelNames, 1, plan)
        catch(e) ==
            Err(Wrap("Failed to get model information. Make sure Anki is running and model names are correct.", e))
    IN  IF ~r.ok THEN Done(<<>>, catch(Error(EitherModelNamesMsg)))
        ELSE IF Len(modelNames) = 0 THEN Done(<<>>, catch(Error(AtLeastOneModelMsg)))
        ELSE IF ~c1.ok THEN Done(<<c1>>, catch(plan.em))
        ELSE Done(<<c1>>, Ok(SelectSeq(modelNames, LAMBDA n : n \in ModelNames)))

\* the calls of the loop over modelNames: modelFieldFonts then modelFieldNames
\* per model with includeProperties, modelFieldNames alone without
ModelFieldCalls(modelNames, includeProperties, plan) ==
    IF includeProperties
    THEN [k \in 1..(2 * Len(modelNames)) |->
             Call(IF k % 2 = 1 THEN "modelFieldFonts" ELSE "modelFieldNames",
                  modelNames[(k + 1) \div 2], k, plan)]
    ELSE [k \in 1..Len(modelNames) |-> Call("modelFieldNames", modelNames[k], k, plan)]

get_model_fields(args, plan) ==
    LET includeProperties == Truthy(args.includeProperties)
        r  == ResolveNames(args.modelNames, args.modelName)
        modelNames == r.v
        cs == UpToFirstFailure(ModelFieldCalls(modelNames, includeProperties, plan))
        catch(e) ==
            Err(Wrap("Failed to get model fields. Make sure Anki is running and model names are correct.", e))
    IN  IF ~r.ok THEN Done(<<>>, catch(Error(EitherModelNamesMsg)))
        ELSE IF Len(modelNames) = 0 THEN Done(<<>>, catch(Error(AtLeastOneModelMsg)))
        ELSE IF \E k \in 1..Len(cs) : ~cs[k].ok THEN Done(cs, catch(plan.em))
        ELSE Done(cs, Ok([i \in 1..Len(modelNames) |-> [model_name |-> modelNames[i]]]))


----------------------------------------------------------------------------
(* Search operations                                                        *)

DefaultLimit == 100
MaxLimit == 1000

\* the most matches a search of the collection reports
MaxMatches == 1002

\* the ids a search reports, in the service's order
Matches(n) == [i \in 1..n |-> n + 1 - i]
MatchCounts == {0, 1, 15, DefaultLimit, DefaultLimit + 1, MaxLimit, MaxMatches}

\* Math.min(Number(args.limit) || 100, 1000)
EffectiveLimit(limit) == MathMin(NumberOr(limit, DefaultLimit), Num(MaxLimit))

QueryEmptyNotesMsg ==
    "Query cannot be empty. Use Anki search syntax like 'deck:Japanese tag:grammar' or 'front:*kanji*'"
QueryEmptyCardsMsg ==
    "Query cannot be empty. Use advanced Anki search syntax like 'deck:Japanese prop:ease<2.0' or 'is:due prop:ivl>30'"

find_notes(args, plan, found) ==
    LET query == ToString(args.query)
        limit == EffectiveLimit(args.limit)
        c1 == CallRet("findNotes", query, 1, plan, found)
        limitedNoteIds == SliceTo(found, limit)
        catch(e) ==
            Err(Wrap("Failed to find notes. Make sure Anki is running and query syntax is correct. Examples: 'deck:Japanese', 'tag:grammar', 'front:*word*'.", e))
    IN  IF query = "" \/ Trim(query) = "" THEN Done(<<>>, catch(Error(QueryEmptyNotesMsg)))
        ELSE IF ~c1.ok THEN Done(<<c1>>, catch(plan.em))
        ELSE Done(<<c1>>, Ok([query |-> query,
                              total_found |-> Len(found),
                              returned_count |-> Len(limitedNoteIds),
                              ids |-> limitedNoteIds,
                              truncated |-> Len(found) > limit.v]))

find_cards_advanced(args, plan, found) ==
    LET query == ToString(args.query)
        limit == EffectiveLimit(args.limit)
        c1 == CallRet("findCards", query, 1, plan, found)
        limitedCardIds == SliceTo(found, limit)
        catch(e) ==
            Err(Wrap("Failed to find cards. Make sure Anki is running and query syntax is correct. Examples: 'deck:Japanese prop:ease<2.0', 'is:review prop:ivl>30', 'is:suspended'.", e))
    IN  IF query = "" \/ Trim(query) = "" THEN Done(<<>>, catch(Error(QueryEmptyCardsMsg)))
        ELSE IF ~c1.ok THEN Done(<<c1>>, catch(plan.em))
        ELSE Done(<<c1>>, Ok([query |-> query,
                              total_found |-> Len(found),
                              returned_count |-> Len(limitedCardIds),
                              ids |-> limitedCardIds,
                              truncated |-> Len(found) > limit.v]))

----------------------------------------------------------------------------
(* Content sanitizer                                                        *)

\* the first position >= from at which sub occurs in s, or 0
IndexFrom(s, sub, from) ==
    LET at == {i \in from..(Len(s) - Len(sub) + 1) : SubSeq(s, i, i + Len(sub) - 1) = sub}
    IN  IF at = {} THEN 0 ELSE CHOOSE i \in at : \A j \in at : i <= j

UpperCase == "ABCDEFGHIJKLMNOPQRSTUVWXYZ"
LowerCase == "abcdefghijklmnopqrstuvwxyz"

LowerChar(c) ==
    LET i == IndexFrom(UpperCase, c, 1)
    IN  IF i = 0 THEN c ELSE CharAt(LowerCase, i)

\* the string as the i flag of a pattern compares it
RECURSIVE IgnoreCase(_)
IgnoreCase(s) ==
    IF Len(s) = 0 THEN ""
    ELSE IF Len(s) = 1 THEN LowerChar(s)
    ELSE IgnoreCase(SubSeq(s, 1, Len(s) \div 2))
             \o IgnoreCase(SubSeq(s, Len(s) \div 2 + 1, Len(s)))

\* s.replace(/sub/g, rep) for a literal sub
RECURSIVE ReplaceAll(_, _, _)
ReplaceAll(s, sub, rep) ==
    LET i == IndexFrom(s, sub, 1)
    IN  IF i = 0 THEN s
        ELSE SubSeq(s, 1, i - 1) \o rep
                 \o ReplaceAll(SliceFrom(s, i + Len(sub) - 1), sub, rep)

\* s.replace(/open[^close]{min,}close/g, rep) for a one-character close:
\* the leftmost open that is followed by at least min characters other than
\* close and then by close matches, up to that close
RECURSIVE ReplaceSpan(_, _, _, _, _)
ReplaceSpan(s, open, min, close, rep) ==
    LET end(i) == IndexFrom(s, close, i + Len(open))
        at == {i \in 1..Len(s) :
                  /\ i + Len(open) - 1 <= Len(s)
                  /\ SubSeq(s, i, i + Len(open) - 1) = open
                  /\ end(i) # 0
                  /\ end(i) - (i + Len(open)) >= min}
        i0 == CHOOSE i \in at : \A j \in at : i <= j
    IN  IF at = {} THEN s
        ELSE SubSeq(s, 1, i0 - 1) \o rep
                 \o ReplaceSpan(SliceFrom(s, end(i0)), open, min, close, rep)

\* s.replace(/<style[^>]*>[\s\S]*?<\/style>/gi, '')
RECURSIVE RemoveStyle(_)
RemoveStyle(s) ==
    LET low == IgnoreCase(s)
        gt(i) == IndexFrom(low, ">", i + 6)
        close(i) == IF gt(i) = 0 THEN 0 ELSE IndexFrom(low, "</style>", gt(i) + 1)
        at == {i \in 1..Len(s) :
                  /\ i + 5 <= Len(s)
                  /\ SubSeq(low, i, i + 5) = "<style"
                  /\ close(i) # 0}
        i0 == CHOOSE i \in at : \A j \in at : i <= j
    IN  IF at = {} THEN s
        ELSE SubSeq(s, 1, i0 - 1) \o RemoveStyle(SliceFrom(s, close(i0) + 7))

\* s.split(sep)
RECURSIVE Split(_, _)
Split(s, sep) ==
    LET i == IndexFrom(s, sep, 1)
    IN  IF i = 0 THEN <<s>>
        ELSE <<SubSeq(s, 1, i - 1)>> \o Split(SliceFrom(s, i + Len(sep) - 1), sep)

\* lines.map(line => line.trim()).filter(line => line.length > 0)
RECURSIVE TrimmedLines(_)
TrimmedLines(lines) ==
    IF Len(lines) = 0 THEN <<>>
    ELSE (IF Len(Trim(lines[1])) > 0 THEN <<Trim(lines[1])>> ELSE <<>>)
             \o TrimmedLines(Tail(lines))

\* the entity replacements, in the order of the chain
ConvertEntities(s) ==
    LET s5 == ReplaceAll(s, "&nbsp;", " ")
        s6 == ReplaceAll(s5, "&amp;", "&")
        s7 == ReplaceAll(s6, "&lt;", "<")
        s8 == ReplaceAll(s7, "&gt;", ">")
    IN  ReplaceAll(s8, "&quot;", "\"")

cleanWithRegex(htmlString) ==
    LET s1 == RemoveStyle(htmlString)
        s2 == ReplaceSpan(s1, "<div", 0, ">", "\n")
        s3 == ReplaceSpan(s2, "<", 1, ">", " ")
        s4 == ReplaceSpan(s3, "[anki:play:", 1, "]", "")
    IN  JoinStrings(TrimmedLines(Split(ConvertEntities(s4), "\n")), "\n")

\* .replace(/\s+/g, ' ')
RECURSIVE CollapseSpace(_)
CollapseSpace(s) ==
    IF Len(s) = 0 THEN ""
    ELSE IF IsSpace(CharAt(s, 1)) THEN " " \o CollapseSpace(TrimStart(s))
    ELSE CharAt(s, 1) \o CollapseSpace(SliceFrom(s, 1))

\* the earlier cleanWithRegex, which collapses all whitespace and keeps no lines
cleanWithRegexCollapsing(htmlString) ==
    LET s1 == RemoveStyle(htmlString)
        s3 == ReplaceSpan(s1, "<", 1, ">", " ")
        s4 == ReplaceSpan(s3, "[anki:play:", 1, "]", "")
    IN  Trim(CollapseSpace(ConvertEntities(s4)))

----------------------------------------------------------------------------
(* Operations that look their target up before acting                       *)

\* catch (error) { if (error.message.includes('not found')) throw error;
\*                 throw new Error(`<hint> Error: ${error}`) }
RethrowNotFound(hint, e) ==
    IF Includes(e.message, "not found") THEN Err(e) ELSE Err(Wrap(hint, e))

get_deck_info(args, plan) ==
    LET deckName == ToString(args.deckName)
        includeStats == Truthy(args.includeStats)
        c1 == Call("deckNamesAndIds", <<>>, 1, plan)
        c2 == Call("getDeckStats", <<deckName>>, 2, plan)
        catch(e) ==
            RethrowNotFound("Failed to get deck info. Make sure Anki is running and the deck name is correct.", e)
    IN  IF ~c1.ok THEN Done(<<c1>>, catch(plan.em))
        ELSE IF deckName \notin DOMAIN decks
             THEN Done(<<c1>>, catch(Error(DeckNotFoundMsg(deckName, decks))))
        ELSE IF ~includeStats THEN Done(<<c1>>, Ok([name |-> deckName]))
        ELSE IF ~c2.ok THEN Done(<<c1, c2>>, catch(plan.em))
        ELSE Done(<<c1, c2>>, Ok([name |-> deckName, total_in_deck |-> decks[deckName]]))

\* s.endsWith(p)
EndsWith(s, p) == Len(s) >= Len(p) /\ SubSeq(s, Len(s) - Len(p) + 1, Len(s)) = p

export_deck(args, plan) ==
    LET deckName == ToString(args.deckName)
        filePath == ToString(args.filePath)
        includeScheduling == args.includeScheduling # Bool(FALSE)
        c1 == Call("deckNamesAndIds", <<>>, 1, plan)
        c2 == Call("exportPackage",
                   [deck |-> deckName, path |-> filePath, includeSched |-> includeScheduling],
                   2, plan)
        catch(e) ==
            RethrowNotFound("Failed to export deck. Make sure Anki is running, deck exists, and file path is valid.", e)
    IN  IF Trim(deckName) = "" THEN Done(<<>>, catch(Error("Deck name cannot be empty")))
        ELSE IF Trim(filePath) = "" THEN Done(<<>>, catch(Error("File path cannot be empty")))
        ELSE IF ~EndsWith(IgnoreCase(filePath), ".apkg")
             THEN Done(<<>>, catch(Error("File path must end with .apkg extension")))
        ELSE IF ~c1.ok THEN Done(<<c1>>, catch(plan.em))
        ELSE IF deckName \notin DOMAIN decks
             THEN Done(<<c1>>, catch(Error(DeckNotFoundMsg(deckName, decks))))
        ELSE IF ~c2.ok THEN Done(<<c1, c2>>, catch(plan.em))
        ELSE Done(<<c1, c2>>,
                  Ok([success |-> TRUE, deck_name |-> deckName, file_path |-> filePath,
                      include_scheduling |-> includeScheduling]))

\* the profiles of the installation, as getProfiles lists them
ProfileNames == <<"User 1", "Work">>

ProfileNotFoundMsg(profileName) ==
    "Profile '" \o profileName \o "' not found. Available profiles: "
        \o JoinStrings(ProfileNames, ", ")

\* active: the profile in use before the request; loaded: whether the
\* service's loadProfile took effect
switch_profile(args, plan, active, loaded) ==
    LET profileName == ToString(args.profileName)
        c1 == Call("getProfiles", <<>>, 1, plan)
        c2 == Call("getActiveProfile", <<>>, 2, plan)
        c3 == Call("loadProfile", profileName, 3, plan)
        c4 == Call("getActiveProfile", <<>>, 4, plan)
        newActiveProfile == IF loaded THEN profileName ELSE active
        catch(e) ==
            RethrowNotFound("Failed to switch profile. Make sure Anki is running and profile name is correct.", e)
    IN  IF Trim(profileName) = "" THEN Done(<<>>, catch(Error("Profile name cannot be empty")))
        ELSE IF ~c1.ok THEN Done(<<c1>>, catch(plan.em))
        ELSE IF \A i \in 1..Len(ProfileNames) : ProfileNames[i] # profileName
             THEN Done(<<c1>>, catch(Error(ProfileNotFoundMsg(profileName))))
        ELSE IF ~c2.ok THEN Done(<<c1, c2>>, catch(plan.em))
        ELSE IF ~c3.ok THEN Done(<<c1, c2, c3>>, catch(plan.em))
        ELSE IF ~c4.ok THEN Done(<<c1, c2, c3, c4>>, catch(plan.em))
        ELSE Done(<<c1, c2, c3, c4>>,
                  Ok([success |-> TRUE, previous_profile |-> active,
                      new_profile |-> newActiveProfile,
                      profile_switched |-> newActiveProfile = profileName]))

\* existingModels, in the order modelNames lists them
ModelOrder == <<"Basic", "Test">>

ModelNotFoundMsg(modelName) ==
    "Model '" \o modelName \o "' not found. Available models: "
        \o JoinStrings(ModelOrder, ", ")

update_model_templates(args, plan) ==
    LET modelName == ToString(args.modelName)
        templates == args.templates
        hasTemplates == Truthy(templates) /\ Len(templates.v) > 0
        hasCss == Truthy(args.css)
        c1 == Call("modelNames", <<>>, 1, plan)
        c2 == Call("updateModelTemplates", [name |-> modelName, templates |-> templates.v], 2, plan)
        c3 == Call("updateModelStyling", [name |-> modelName, css |-> ToString(args.css)],
                   IF hasTemplates THEN 3 ELSE 2, plan)
        catch(e) ==
            RethrowNotFound("Failed to update model templates. Make sure Anki is running, model exists, and template syntax is valid.", e)
        result == Ok([success |-> TRUE, model_name |-> modelName,
                      updated_templates |-> IF Truthy(templates) THEN templates.v ELSE <<>>,
                      updated_css |-> hasCss])
        \* the updates that follow the existence check
        updates ==
            IF hasTemplates /\ ~c2.ok THEN Done(<<c2>>, catch(plan.em))
            ELSE IF hasCss /\ ~c3.ok
                 THEN Done((IF hasTemplates THEN <<c2>> ELSE <<>>) \o <<c3>>, catch(plan.em))
            ELSE Done((IF hasTemplates THEN <<c2>> ELSE <<>>)
                          \o (IF hasCss THEN <<c3>> ELSE <<>>), result)
    IN  IF Trim(modelName) = "" THEN Done(<<>>, catch(Error("Model name cannot be empty")))
        \* the inner catch rethrows only a 'not found' error
        ELSE IF ~c1.ok /\ Includes(plan.em.message, "not found")
             THEN Done(<<c1>>, catch(plan.em))
        ELSE IF c1.ok /\ (\A i \in 1..Len(ModelOrder) : ModelOrder[i] # modelName)
             THEN Done(<<c1>>, catch(Error(ModelNotFoundMsg(modelName))))
        ELSE Done(<<c1>> \o updates.calls, updates.out)

\* the note a successful addNote creates
NewNoteId == 3

\* what notesInfo reports of a note
NoteDeck(n) == IF n = 1 THEN "Test" ELSE "Default"
NoteModel(n) == IF n = 1 THEN "Basic" ELSE "Test"
NoteFields(n) == IF n = 1 THEN [Front |-> "2 + 2", Back |-> "4"]
                 ELSE [Front |-> "capital", Back |-> "Paris"]
NoteTags(n) == IF n = 1 THEN <<"math">> ELSE <<>>

\* absent: what notesInfo answers for a note the collection does not have,
\* no entry ("omitted") or an empty object ("empty")
duplicate_note(args, plan, absent) ==
    LET noteId == ToNumber(args.noteId)
        targetDeck == IF Truthy(args.targetDeck) THEN Str(ToString(args.targetDeck)) ELSE Null
        fieldUpdates == IF Truthy(args.fieldUpdates) THEN args.fieldUpdates.v
                        ELSE [f \in {} |-> ""]
        additionalTags == IF Truthy(args.additionalTags) THEN args.additionalTags.v ELSE <<>>
        c1 == Call("notesInfo", <<noteId>>, 1, plan)
        n  == noteId.v
        newFields == [f \in DOMAIN NoteFields(n) |->
                         IF f \in DOMAIN fieldUpdates /\ fieldUpdates[f] # ""
                         THEN fieldUpdates[f] ELSE NoteFields(n)[f]]
        deckName == IF Truthy(targetDeck) THEN targetDeck.v ELSE "Default"
        newNote == [deckName |-> deckName, modelName |-> NoteModel(n),
                    fields |-> newFields, tags |-> NoteTags(n) \o additionalTags]
        c2 == Call("addNote", newNote, 2, plan)
        catch(e) ==
            Err(Wrap("Failed to duplicate note. Make sure Anki is running, note ID is valid, and target deck exists (if specified).", e))
    IN  IF ~c1.ok THEN Done(<<c1>>, catch(plan.em))
        ELSE IF ~KnownNote(noteId) /\ absent = "omitted"
             THEN Done(<<c1>>, catch(Error("Note with ID " \o ToString(noteId) \o " not found")))
        ELSE IF ~KnownNote(noteId)
             THEN Done(<<c1>>, catch(Thrown("TypeError", "Cannot convert undefined or null to object")))
        ELSE IF ~c2.ok THEN Done(<<c1, c2>>, catch(plan.em))
        ELSE Done(<<c1, c2>>,
                  Ok([success |-> TRUE, original_note_id |-> noteId,
                      new_note_id |-> NewNoteId, target_deck |-> deckName,
                      additional_tags |-> additionalTags]))

----------------------------------------------------------------------------
(* Creating a deck                                                          *)

DeckNameEmptyMsg == "Deck name cannot be empty"
DeckNameFormatMsg ==
    "Invalid deck name format. Each part separated by '::' must be non-empty. Example: 'Parent::Child'"

\* a check of the segments that looks at the first segment only
EmptyPart_FirstOnly(deckName) ==
    Includes(deckName, "::") /\ Trim(Split(deckName, "::")[1]) = ""

\* deckName.includes('::') and some part of deckName.split('::') trims to ''
EmptyPart(deckName) ==
    /\ Includes(deckName, "::")
    /\ \E i \in 1..Len(Split(deckName, "::")) : Trim(Split(deckName, "::")[i]) = ""

create_deck(args, plan) ==
    LET deckName == ToString(args.deckName)
        c1 == Call("createDeck", deckName, 1, plan)
        catch(e) ==
            Err(Wrap("Failed to create deck. Make sure Anki is running and the deck name is valid. Use '::' for nested decks (e.g., 'Parent::Child').", e))
    IN  IF Trim(deckName) = "" THEN Done(<<>>, catch(Error(DeckNameEmptyMsg)))
        ELSE IF EmptyPart(deckName) THEN Done(<<>>, catch(Error(DeckNameFormatMsg)))
        ELSE IF ~c1.ok THEN Done(<<c1>>, catch(plan.em))
        ELSE Done(<<c1>>, Ok([success |-> TRUE, deck_name |-> deckName]))

----------------------------------------------------------------------------
(* Answering and adding cards                                               *)

RECURSIVE JoinIds(_, _)
\* answers.map(card => card.cardId).join(sep)
JoinIds(answers, sep) ==
    IF Len(answers) = 0 THEN ""
    ELSE IF Len(answers) = 1 THEN IntToString(answers[1].cardId)
    ELSE IntToString(answers[1].cardId) \o sep \o JoinIds(Tail(answers), sep)

\* answerCards reports, per answer, whether the card was answered
update_cards(args, plan) ==
    LET answers == args.answers
        c1 == Call("answerCards", answers, 1, plan)
        failedCards == SelectSeq(answers.v, LAMBDA a : a.cardId \notin CardIds)
        successfulCards == SelectSeq(answers.v, LAMBDA a : a.cardId \in CardIds)
    IN  IF ~c1.ok THEN Done(<<c1>>, Err(plan.em))
        ELSE IF ~IsArray(answers) THEN Done(<<c1>>, Err(TypeErrorOf("filter")))
        ELSE IF Len(failedCards) > 0
             THEN Done(<<c1>>, Err(Error("Failed to update cards with IDs: "
                                             \o JoinIds(failedCards, ", "))))
        ELSE Done(<<c1>>, Ok("Updated cards " \o JoinIds(successfulCards, ", ")))

\* the card of the note a successful addNote creates
NewCardId == 31

add_card(args, plan) ==
    LET front == ToString(args.front)
        back == ToString(args.back)
        note == [deckName |-> "Default", modelName |-> "Basic",
                 fields |-> [Front |-> front, Back |-> back], tags |-> <<>>]
        c1 == Call("addNote", note, 1, plan)
        c2 == CallRet("findCards", "nid:" \o IntToString(NewNoteId), 2, plan, <<NewCardId>>)
    IN  IF ~c1.ok THEN Done(<<c1>>, Err(plan.em))
        ELSE IF ~c2.ok THEN Done(<<c1, c2>>, Err(plan.em))
        ELSE Done(<<c1, c2>>, Ok("Created card with id " \o IntToString(NewCardId)))

----------------------------------------------------------------------------
(* Due and new cards, and the resources                                     *)

\* card.due as cardsInfo reports it
CardDue(id) == IF id = 1 THEN 7 ELSE 4

\* the card lists a search of the cards reports
CardLists == {<<>>, <<1>>, <<2>>, <<1, 2>>, <<2, 1>>, <<1, 2, 3>>, <<3, 1, 2>>}

\* card.question and card.answer as cardsInfo reports them: rendered HTML
CardQuestion(id) ==
    IF id = 1 THEN "<style>x</style><b>2</b>"
    ELSE IF id = 2 THEN "&lt;b&gt; &amp;amp;"
    ELSE " a&nbsp;b[anki:play:q]"
CardAnswer(id) ==
    IF id = 1 THEN "<div>4</div>"
    ELSE IF id = 2 THEN "&quot;b&quot;"
    ELSE "Paris"

\* the cards in the order the service reported them
SortByDue_ServiceOrder(q) == q

\* the number of cards a stable sort by due puts before the card at i: those
\* with a smaller due and the earlier ones with the same due
Before(q, i) ==
    Cardinality({j \in 1..Len(q) :
                    \/ q[j].due - q[i].due < 0
                    \/ (q[j].due - q[i].due = 0 /\ j < i)})

\* cards.sort((a, b) => a.due - b.due): a stable sort of the array v
SortByDue(q) ==
    CHOOSE sorted \in {[k \in 1..Len(v) |-> v[CHOOSE i \in 1..Len(v) : Before(v, i) = k - 1]] :
                          v \in {q \o <<>>}} : TRUE

\* the cards findCardsAndOrder returns when the service found the ids found
OrderedCards(found) ==
    SortByDue([i \in 1..Len(found) |->
                  [cardId |-> found[i],
                   question |-> cleanWithRegex(CardQuestion(found[i])),
                   answer |-> cleanWithRegex(CardAnswer(found[i])),
                   due |-> CardDue(found[i])]])

\* the calls of findCardsAndOrder(query) from position k on, and whether it
\* returned
findCardsAndOrder(query, k, plan, found) ==
    LET c1 == CallRet("findCards", formatQuery(query), k, plan, found)
        c2 == Call("cardsInfo", found, k + 1, plan)
    IN  IF ~c1.ok THEN [calls |-> <<c1>>, ok |-> FALSE]
        ELSE IF ~c2.ok THEN [calls |-> <<c1, c2>>, ok |-> FALSE]
        ELSE [calls |-> <<c1, c2>>, ok |-> TRUE]

get_due_cards(args, plan, found) ==
    LET num == ToNumber(args.num)
        f == findCardsAndOrder("is:due", 1, plan, found)
    IN  IF ~f.ok THEN Done(f.calls, Err(plan.em))
        ELSE Done(f.calls, Ok(SliceTo(OrderedCards(found), num)))

get_new_cards(args, plan, found) ==
    LET num == ToNumber(args.num)
        f == findCardsAndOrder("is:new", 1, plan, found)
    IN  IF ~f.ok THEN Done(f.calls, Err(plan.em))
        ELSE Done(f.calls, Ok(SliceTo(OrderedCards(found), num)))

\* the addresses the ListResourcesRequestSchema handler advertises
AdvertisedResources ==
    {"anki://search/deckcurrent", "anki://search/isdue", "anki://search/isnew"}
\* the position of the first "/" of s, or 0
FirstSlash(s) ==
    LET at == {i \in 1..Len(s) : CharAt(s, i) = "/"}
    IN  IF at = {} THEN 0 ELSE CHOOSE i \in at : \A j \in at : i <= j

\* new URL(uri).pathname of an anki://host/path address
UrlPathname(uri) ==
    LET rest == SliceFrom(uri, Len("anki://"))
    IN  IF FirstSlash(rest) = 0 THEN "" ELSE SliceFrom(rest, FirstSlash(rest) - 1)

\* pathname.split("/").pop()
LastSegment(path) ==
    LET at == {i \in 1..Len(path) : CharAt(path, i) = "/"}
    IN  IF at = {} THEN path
        ELSE SliceFrom(path, CHOOSE i \in at : \A j \in at : i >= j)

InvalidResourceMsg == "Invalid resource URI"

read_resource(uri, plan, found) ==
    LET query == LastSegment(UrlPathname(uri))
        f == findCardsAndOrder(query, 1, plan, found)
    IN  IF query = "" THEN Done(<<>>, Err(Error(InvalidResourceMsg)))
        ELSE IF ~f.ok THEN Done(f.calls, Err(plan.em))
        ELSE Done(f.calls, Ok([uri |-> uri, cards |-> OrderedCards(found)]))

----------------------------------------------------------------------------
(* Listings, statistics and collection-wide operations                      *)

\* the number getNumCardsReviewedToday reports
ReviewedToday == ReviewHistory[1]

\* the sum of total_in_deck over the stats
TotalCards(stats) == SumSeq([i \in 1..Len(stats) |-> stats[i].total_in_deck])

list_decks(args, plan) ==
    LET includeIds == Truthy(args.includeIds)
        includeStats == Truthy(args.includeStats)
        deckNames == DeckKeys(decks)
        c1 == Call("deckNames", <<>>, 1, plan)
        c2 == Call("getDeckStats", deckNames, 2, plan)
        ids == Call("deckNamesAndIds", <<>>, 1, plan)
        catch(e) ==
            Err(Wrap("Failed to list decks. Make sure Anki is running and AnkiConnect is installed.", e))
    IN  IF includeStats
        THEN IF ~c1.ok THEN Done(<<c1>>, catch(plan.em))
             ELSE IF ~c2.ok THEN Done(<<c1, c2>>, catch(plan.em))
             ELSE Done(<<c1, c2>>, Ok(DeckStats(deckNames)))
        ELSE IF includeIds
        THEN IF ~ids.ok THEN Done(<<ids>>, catch(plan.em))
             ELSE Done(<<ids>>, Ok(deckNames))
        ELSE IF ~c1.ok THEN Done(<<c1>>, catch(plan.em))
             ELSE Done(<<c1>>, Ok(deckNames))

get_collection_stats(args, plan) ==
    LET includeHTML == Truthy(args.includeHTML)
        deckNames == DeckKeys(decks)
        c1 == Call("deckNames", <<>>, 1, plan)
        c2 == Call("getDeckStats", deckNames, 2, plan)
        c3 == Call("getNumCardsReviewedToday", <<>>, 3, plan)
        c4 == Call("getCollectionStatsHTML", <<>>, 4, plan)
        result == [total_decks |-> Len(deckNames),
                   total_cards |-> TotalCards(DeckStats(deckNames)),
                   cards_reviewed_today |-> ReviewedToday,
                   deck_breakdown |-> DeckStats(deckNames),
                   html_report |-> includeHTML]
        catch(e) ==
            Err(Wrap("Failed to get collection statistics. Make sure Anki is running.", e))
    IN  IF ~c1.ok THEN Done(<<c1>>, catch(plan.em))
        ELSE IF ~c2.ok THEN Done(<<c1, c2>>, catch(plan.em))
        ELSE IF ~c3.ok THEN Done(<<c1, c2, c3>>, catch(plan.em))
        ELSE IF ~includeHTML THEN Done(<<c1, c2, c3>>, Ok(result))
        ELSE IF ~c4.ok THEN Done(<<c1, c2, c3, c4>>, catch(plan.em))
        ELSE Done(<<c1, c2, c3, c4>>, Ok(result))

\* a count that synchronises the collection first
get_cards_reviewed_today_Syncing(plan) ==
    LET c1 == Call("sync", <<>>, 1, plan)
        c2 == Call("getNumCardsReviewedToday", <<>>, 2, plan)
    IN  IF ~c1.ok THEN Done(<<c1>>, Err(plan.em))
        ELSE IF ~c2.ok THEN Done(<<c1, c2>>, Err(plan.em))
        ELSE Done(<<c1, c2>>, Ok([cards_reviewed_today |-> ReviewedToday]))

get_cards_reviewed_today(plan) ==
    LET c1 == Call("getNumCardsReviewedToday", <<>>, 1, plan)
        catch(e) ==
            Err(Wrap("Failed to get cards reviewed today. Make sure Anki is running.", e))
    IN  IF ~c1.ok THEN Done(<<c1>>, catch(plan.em))
        ELSE Done(<<c1>>, Ok([cards_reviewed_today |-> ReviewedToday]))

get_review_history(args, plan) ==
    LET days == MathMin(NumberOr(args.days, 30), Num(365))
        c1 == Call("getNumCardsReviewedByDay", <<>>, 1, plan)
        limitedHistory == SliceTo(ReviewHistory, days)
        catch(e) ==
            Err(Wrap("Failed to get review history. Make sure Anki is running.", e))
    IN  IF ~c1.ok THEN Done(<<c1>>, catch(plan.em))
        ELSE Done(<<c1>>, Ok([period_days |-> days,
                              total_reviews |-> SumSeq(limitedHistory),
                              daily_history |-> limitedHistory]))

CardIdsArrayMsg == "cardIds must be a non-empty array of card IDs"

get_card_reviews(args, plan) ==
    LET cardIds == args.cardIds
        cardIdStrings == [i \in 1..Len(cardIds.v) |-> ToString(cardIds.v[i])]
        c1 == Call("getReviewsOfCards", cardIdStrings, 1, plan)
        catch(e) ==
            Err(Wrap("Failed to get card reviews. Make sure Anki is running and card IDs are valid.", e))
    IN  IF ~IsArray(cardIds) \/ Len(cardIds.v) = 0
        THEN Done(<<>>, catch(Error(CardIdsArrayMsg)))
        ELSE IF ~c1.ok THEN Done(<<c1>>, catch(plan.em))
        ELSE Done(<<c1>>, Ok([i \in 1..Len(cardIdStrings) |->
                                 [card_id |-> ToNumber(Str(cardIdStrings[i]))]]))

get_learning_stats(args, plan) ==
    LET days == NumberOr(args.days, 30)
        deckName == IF Truthy(args.deckName) THEN Str(ToString(args.deckName)) ELSE Null
        c0 == Call("deckNames", <<>>, 1, plan)
        pre == IF Truthy(deckName) THEN <<>> ELSE <<c0>>
        deckNames == IF Truthy(deckName) THEN <<deckName.v>> ELSE DeckKeys(decks)
        c1 == Call("getDeckStats", deckNames, Len(pre) + 1, plan)
        c2 == Call("getNumCardsReviewedByDay", <<>>, Len(pre) + 2, plan)
        catch(e) ==
            Err(Wrap("Failed to get learning statistics. Make sure Anki is running and deck name is correct (if provided).", e))
    IN  IF ~Truthy(deckName) /\ ~c0.ok THEN Done(<<c0>>, catch(plan.em))
        ELSE IF ~c1.ok THEN Done(pre \o <<c1>>, catch(plan.em))
        ELSE IF ~c2.ok THEN Done(pre \o <<c1, c2>>, catch(plan.em))
        ELSE Done(pre \o <<c1, c2>>,
                  Ok([analysis_period_days |-> days,
                      scope |-> IF Truthy(deckName) THEN deckName.v ELSE "All decks",
                      total_cards |-> TotalCards(DeckStats(deckNames)),
                      total_reviews |-> SumSeq(SliceTo(ReviewHistory, days))]))

\* the tags getTags reports, in the service's order
AllTags == <<"verb", "math">>

\* the notes of the collection that carry the tag
NotesTagged(tag) == {n \in notes : \E i \in 1..Len(NoteTags(n)) : NoteTags(n)[i] = tag}

\* inserts the entry c after the entries of q that do not sort after it
RECURSIVE InsertByCount(_, _)
InsertByCount(q, c) ==
    IF Len(q) = 0 THEN <<c>>
    ELSE IF c.note_count - q[Len(q)].note_count > 0
         THEN Append(InsertByCount(SubSeq(q, 1, Len(q) - 1), c), q[Len(q)])
         ELSE Append(q, c)

\* tagUsage.sort((a, b) => b.note_count - a.note_count): a stable sort
RECURSIVE SortByCount(_)
SortByCount(q) ==
    IF Len(q) = 0 THEN <<>>
    ELSE InsertByCount(SortByCount(SubSeq(q, 1, Len(q) - 1)), q[Len(q)])

\* allTags.sort() of the two tags
SortedTags == <<"math", "verb">>

get_all_tags(args, plan) ==
    LET includeUsage == Truthy(args.includeUsage)
        c1 == Call("getTags", <<>>, 1, plan)
        \* a tag whose count fails is reported with note_count 0 and the error
        finds == [i \in 1..Len(AllTags) |->
                     Call("findNotes", "tag:\"" \o AllTags[i] \o "\"", i + 1, plan)]
        tagUsage == [i \in 1..Len(AllTags) |->
                        [tag |-> AllTags[i],
                         note_count |-> IF finds[i].ok
                                        THEN Cardinality(NotesTagged(AllTags[i])) ELSE 0,
                         error |-> IF finds[i].ok THEN "" ELSE ErrorToString(plan.em)]]
        catch(e) == Err(Wrap("Failed to get tags. Make sure Anki is running.", e))
    IN  IF ~c1.ok THEN Done(<<c1>>, catch(plan.em))
        ELSE IF includeUsage
        THEN Done(<<c1>> \o finds,
                  Ok([total_tags |-> Len(AllTags), tags_with_usage |-> SortByCount(tagUsage)]))
        ELSE Done(<<c1>>, Ok([total_tags |-> Len(AllTags), tags |-> SortedTags]))

list_models(args, plan) ==
    LET includeDetails == Truthy(args.includeDetails)
        c1 == Call("modelNamesAndIds", <<>>, 1, plan)
        c2 == Call("findModelsById", ModelOrder, 2, plan)
        catch(e) == Err(Wrap("Failed to list models. Make sure Anki is running.", e))
    IN  IF ~c1.ok THEN Done(<<c1>>, catch(plan.em))
        ELSE IF ~includeDetails THEN Done(<<c1>>, Ok(ModelOrder))
        ELSE IF ~c2.ok THEN Done(<<c1, c2>>, catch(plan.em))
        ELSE Done(<<c1, c2>>, Ok([i \in 1..Len(ModelOrder) |-> [name |-> ModelOrder[i]]]))

\* !template.name || !template.front || !template.back for a template given
\* by its keys
Incomplete(template) ==
    \E k \in {"name", "front", "back"} : \A i \in 1..Len(template.v) : template.v[i] # k

create_model(args, plan) ==
    LET modelName == ToString(args.modelName)
        fields == args.fields
        templates == args.templates
        isCloze == Truthy(args.isCloze)
        \* the look at the existing models sits in a try of its own whose catch
        \* is empty: neither a failed call nor a name in use stops the creation
        c1 == Call("modelNames", <<>>, 1, plan)
        c2 == Call("createModel", modelName, 2, plan)
        catch(e) ==
            Err(Wrap("Failed to create model. Make sure Anki is running, model name is unique, and template syntax is valid.", e))
    IN  IF modelName = "" \/ Trim(modelName) = ""
        THEN Done(<<>>, catch(Error("Model name cannot be empty")))
        ELSE IF ~IsArray(fields) \/ Len(fields.v) = 0
        THEN Done(<<>>, catch(Error("Fields array must be provided with at least one field")))
        ELSE IF ~IsArray(templates) \/ Len(templates.v) = 0
        THEN Done(<<>>, catch(Error("Templates array must be provided with at least one template")))
        ELSE IF \E i \in 1..Len(templates.v) : Incomplete(templates.v[i])
        THEN Done(<<>>, catch(Error("Each template must have 'name', 'front', and 'back' properties")))
        ELSE IF ~c2.ok THEN Done(<<c1, c2>>, catch(plan.em))
        ELSE Done(<<c1, c2>>, Ok([success |-> TRUE, model_name |-> modelName,
                                  field_count |-> Len(fields.v),
                                  template_count |-> Len(templates.v),
                                  is_cloze |-> isCloze]))

get_profiles(plan) ==
    LET c1 == Call("getProfiles", <<>>, 1, plan)
        catch(e) == Err(Wrap("Failed to get profiles. Make sure Anki is running.", e))
    IN  IF ~c1.ok THEN Done(<<c1>>, catch(plan.em))
        ELSE Done(<<c1>>, Ok([profiles |-> ProfileNames, profile_count |-> Len(ProfileNames)]))

get_active_profile(plan, active) ==
    LET c1 == Call("getActiveProfile", <<>>, 1, plan)
        catch(e) == Err(Wrap("Failed to get active profile. Make sure Anki is running.", e))
    IN  IF ~c1.ok THEN Done(<<c1>>, catch(plan.em))
        ELSE Done(<<c1>>, Ok([active_profile |-> active]))

sync_collection(args, plan) ==
    LET forceSync == Truthy(args.forceSync)
        c1 == Call("sync", <<>>, 1, plan)
        catch(e) ==
            Err(Wrap("Failed to sync collection. Make sure Anki is running, you're logged into AnkiWeb, and have an internet connection.", e))
    IN  IF ~c1.ok THEN Done(<<c1>>, catch(plan.em))
        ELSE Done(<<c1>>, Ok([success |-> TRUE, force_sync |-> forceSync]))

reload_collection(plan) ==
    LET c1 == Call("reloadCollection", <<>>, 1, plan)
        catch(e) == Err(Wrap("Failed to reload collection. Make sure Anki is running.", e))
    IN  IF ~c1.ok THEN Done(<<c1>>, catch(plan.em))
        ELSE Done(<<c1>>, Ok([success |-> TRUE]))

----------------------------------------------------------------------------
(* Dispatcher                                                               *)

\* the names the ListToolsRequestSchema handler advertises
ToolCatalog ==
    {"update_cards", "add_card", "get_due_cards", "get_new_cards", "list_decks",
     "get_deck_info", "get_deck_stats", "create_deck", "delete_deck",
     "list_models", "get_cards_reviewed_today", "get_review_history",
     "get_card_reviews", "get_deck_performance", "get_learning_stats",
     "find_notes", "get_note_info_detailed", "update_note_fields",
     "delete_notes", "add_tags_to_notes", "remove_tags_from_notes",
     "get_all_tags", "duplicate_note", "find_cards_advanced",
     "get_card_info_detailed", "suspend_cards", "set_card_due_date",
     "forget_cards", "set_card_ease_factors", "get_card_intervals",
     "get_model_info", "get_model_fields", "create_model",
     "update_model_templates", "get_profiles", "get_active_profile",
     "switch_profile", "sync_collection", "export_deck",
     "get_collection_stats", "reload_collection"}

\* names a caller may send that the switch has no case for
UnknownNames == {"", "delete_decks", "deleteDeck", "DELETE_DECK", "list_tools"}

\* bags sent along with them
UnknownArgs ==
    {[deckName |-> Str("Test"), confirmDelete |-> Bool(TRUE)],
     [query |-> Str("is:due")],
     [noteIds |-> Arr(<<Num(1)>>)]}

UnknownToolMsg == "Unknown tool"

\* default: throw new Error("Unknown tool")
unknown_tool == Done(<<>>, Err(Error(UnknownToolMsg)))

\* the case labels of the switch over request.params.name
DispatcherCases ==
    {"update_cards", "add_card", "get_due_cards", "get_new_cards",
     "list_decks", "get_deck_info", "get_deck_stats", "create_deck",
     "delete_deck", "get_collection_stats", "get_cards_reviewed_today",
     "get_review_history", "get_card_reviews", "get_deck_performance",
     "get_learning_stats", "find_notes", "get_note_info_detailed",
     "update_note_fields", "delete_notes", "add_tags_to_notes",
     "remove_tags_from_notes", "get_all_tags", "duplicate_note",
     "find_cards_advanced", "get_card_info_detailed", "suspend_cards",
     "set_card_due_date", "forget_cards", "set_card_ease_factors",
     "get_card_intervals", "list_models", "get_model_info",
     "get_model_fields", "create_model", "update_model_templates",
     "get_profiles", "get_active_profile", "switch_profile",
     "sync_collection", "export_deck", "reload_collection"}

\* a switch whose last case is missing
Switch_WithoutLastCase(name, r) == IF name = "reload_collection" THEN unknown_tool ELSE r

\* switch (request.params.name): the branch r of a case label, the default
\* branch for any other name
Switch(name, r) == IF name \in DispatcherCases THEN r ELSE unknown_tool

\* requests are taken one at a time: none is being answered
Idle == out.kind = "none"

NoArgumentsMsg(name) == "No arguments provided for tool: " \o name

\* the CallToolRequestSchema handler up to the switch, then the branch r
CallTool(name, args, r) ==
    /\ req' = [kind |-> "tool", name |-> name, args |-> args]
    /\ \E h \in {IF args = NoArgs THEN Done(<<>>, Err(Error(NoArgumentsMsg(name))))
                  ELSE Switch(name, r)} :
           /\ calls' = h.calls
           /\ out' = h.out
           /\ decks' = DecksAfter(decks, h.calls)
           /\ notes' = NotesAfter(notes, h.calls)
           /\ UNCHANGED inflight

DeleteDeckArgs ==
    [deckName : {Undef, Str("Test"), Str("Gone")}, confirmDelete : FlagVals]
DeleteNotesArgs ==
    {[noteIds |-> p.plural, noteId |-> p.singular, confirmDelete |-> x0] :
        p \in IdPairs, x0 \in {Undef, Bool(TRUE)}}
        \cup [noteIds : FewPluralIds, noteId : FewSingularIds, confirmDelete : FlagVals]
ForgetCardsArgs ==
    {[cardIds |-> p.plural, cardId |-> p.singular, confirmReset |-> x0] :
        p \in IdPairs, x0 \in {Undef, Bool(TRUE)}}
        \cup [cardIds : FewPluralIds, cardId : FewSingularIds, confirmReset : FlagVals]

DeleteDeck ==
    /\ Idle
    /\ \E args \in DeleteDeckArgs \cup {NoArgs}, plan \in FirstFailure(3),
          entry \in BOOLEAN :
           CallTool("delete_deck", args, delete_deck(args, plan, entry))

DeleteNotes ==
    /\ Idle
    /\ \E args \in DeleteNotesArgs \cup {NoArgs}, plan \in FirstFailure(2) :
           CallTool("delete_notes", args, delete_notes(args, plan))

ForgetCards ==
    /\ Idle
    /\ \E args \in ForgetCardsArgs \cup {NoArgs}, plan \in FirstFailure(2) :
           CallTool("forget_cards", args, forget_cards(args, plan))

GetDeckStatsArgs ==
    {[deckNames |-> p.plural, deckName |-> p.singular] :
        p \in NamePairs}
GetDeckPerformanceArgs ==
    {[deckNames |-> p.plural, deckName |-> p.singular, days |-> x0] :
        p \in NamePairs, x0 \in {Undef, Num(1)}}
GetNoteInfoDetailedArgs ==
    {[noteIds |-> p.plural, noteId |-> p.singular] :
        p \in IdPairs}
UpdateNoteFieldsArgs ==
    {[noteIds |-> p.plural, noteId |-> p.singular, fields |-> x0] :
        p \in IdPairs, x0 \in {Undef, Obj(<<>>), Obj(<<"Front">>)}}
TagsArgs ==
    {[noteIds |-> p.plural, noteId |-> p.singular, tags |-> x0] :
        p \in IdPairs, x0 \in {Undef, Arr(<<>>), Arr(<<Str("a"), Str("b")>>)}}
GetCardInfoDetailedArgs ==
    {[cardIds |-> p.plural, cardId |-> p.singular] :
        p \in IdPairs}
SuspendCardsArgs ==
    {[cardIds |-> p.plural, cardId |-> p.singular, suspend |-> x0] :
        p \in IdPairs, x0 \in {Undef, Bool(TRUE), Bool(FALSE)}}
SetCardDueDateArgs ==
    {[cardIds |-> p.plural, cardId |-> p.singular, days |-> x0] :
        p \in IdPairs, x0 \in {Undef, Str("3-7")}}
GetCardIntervalsArgs ==
    {[cardIds |-> p.plural, cardId |-> p.singular, includeHistory |-> x0] :
        p \in IdPairs, x0 \in {Undef, Bool(TRUE)}}
GetModelInfoArgs ==
    {[modelNames |-> p.plural, modelName |-> p.singular] :
        p \in NamePairs}
GetModelFieldsArgs ==
    {[modelNames |-> p.plural, modelName |-> p.singular, includeProperties |-> x0] :
        p \in NamePairs, x0 \in {Undef, Bool(TRUE)}}

\* ease factors as callers write them
EaseVals == {Num(0), Num(MinEase - 1), Num(MinEase), Num(MaxEase), Num(MaxEase + 1),
             Str("5000"), Str("abc")}
SingularEases == {Undef} \cup EaseVals
PluralEases   == {Undef, Str("2500")} \cup {Arr(a) : a \in SeqsUpTo(EaseVals, MaxIds)}

SetCardEaseFactorsArgs ==
    {[cardIds |-> p.plural, cardId |-> p.singular, easeFactors |-> x0, easeFactor |-> x1] :
        p \in IdPairs, x0 \in {Undef}, x1 \in {Undef, Num(2500)}}
        \cup [cardIds : {Undef, Arr(<<Num(1), Num(2)>>)}, cardId : FewSingularIds,
              easeFactors : PluralEases, easeFactor : {Undef}]
        \cup [cardIds : FewPluralIds, cardId : FewSingularIds,
              easeFactors : {Undef, Arr(<<Num(MaxEase + 1)>>)}, easeFactor : SingularEases]

GetDeckStats ==
    /\ Idle
    /\ \E args \in GetDeckStatsArgs \cup {NoArgs}, plan \in FirstFailure(1) :
           CallTool("get_deck_stats", args, get_deck_stats(args, plan))

GetDeckPerformance ==
    /\ Idle
    /\ \E args \in GetDeckPerformanceArgs \cup {NoArgs}, plan \in FirstFailure(3) :
           CallTool("get_deck_performance", args, get_deck_performance(args, plan))

GetNoteInfoDetailed ==
    /\ Idle
    /\ \E args \in GetNoteInfoDetailedArgs \cup {NoArgs}, plan \in FirstFailure(1) :
           CallTool("get_note_info_detailed", args, get_note_info_detailed(args, plan))

UpdateNoteFields ==
    /\ Idle
    /\ \E args \in UpdateNoteFieldsArgs \cup {NoArgs}, plan \in FailPlans(MaxIds) :
           CallTool("update_note_fields", args, update_note_fields(args, plan))

AddTagsToNotes ==
    /\ Idle
    /\ \E args \in TagsArgs \cup {NoArgs}, plan \in FirstFailure(1) :
           CallTool("add_tags_to_notes", args, add_tags_to_notes(args, plan))

RemoveTagsFromNotes ==
    /\ Idle
    /\ \E args \in TagsArgs \cup {NoArgs}, plan \in FirstFailure(1) :
           CallTool("remove_tags_from_notes", args, remove_tags_from_notes(args, plan))

GetCardInfoDetailed ==
    /\ Idle
    /\ \E args \in GetCardInfoDetailedArgs \cup {NoArgs}, plan \in FirstFailure(1) :
           CallTool("get_card_info_detailed", args, get_card_info_detailed(args, plan))

SuspendCards ==
    /\ Idle
    /\ \E args \in SuspendCardsArgs \cup {NoArgs}, plan \in FirstFailure(1) :
           CallTool("suspend_cards", args, suspend_cards(args, plan))

SetCardDueDate ==
    /\ Idle
    /\ \E args \in SetCardDueDateArgs \cup {NoArgs}, plan \in FirstFailure(1) :
           CallTool("set_card_due_date", args, set_card_due_date(args, plan))

SetCardEaseFactors ==
    /\ Idle
    /\ \E args \in SetCardEaseFactorsArgs \cup {NoArgs}, plan \in FirstFailure(1) :
           CallTool("set_card_ease_factors", args, set_card_ease_factors(args, plan))

GetCardIntervals ==
    /\ Idle
    /\ \E args \in GetCardIntervalsArgs \cup {NoArgs}, plan \in FirstFailure(1) :
           CallTool("get_card_intervals", args, get_card_intervals(args, plan))

GetModelInfo ==
    /\ Idle
    /\ \E args \in GetModelInfoArgs \cup {NoArgs}, plan \in FirstFailure(1) :
           CallTool("get_model_info", args, get_model_info(args, plan))

GetModelFields ==
    /\ Idle
    /\ \E args \in GetModelFieldsArgs \cup {NoArgs}, plan \in FirstFailure(2 * MaxIds) :
           CallTool("get_model_fields", args, get_model_fields(args, plan))

QueryVals == {Undef, Str(""), Str("  "), Str("deck:Japanese prop:ease<2.0")}
LimitVals == {Undef, Null, Num(0), Num(-1), Num(1), Num(10), Num(DefaultLimit),
              Num(MaxLimit), Num(5000), Str("10"), Str("abc")}
FindArgs == [query : QueryVals, limit : LimitVals]

FindNotes ==
    /\ Idle
    /\ \E args \in FindArgs \cup {NoArgs}, plan \in FirstFailure(1), n \in MatchCounts :
           CallTool("find_notes", args, find_notes(args, plan, Matches(n)))

FindCardsAdvanced ==
    /\ Idle
    /\ \E args \in FindArgs \cup {NoArgs}, plan \in FirstFailure(1), n \in MatchCounts :
           CallTool("find_cards_advanced", args, find_cards_advanced(args, plan, Matches(n)))

NumArgs == [num : {Undef, Num(0), Num(1), Num(2), Num(-1)}]

GetDueCards ==
    /\ Idle
    /\ \E args \in NumArgs \cup {NoArgs}, plan \in FirstFailure(2), found \in CardLists :
           CallTool("get_due_cards", args, get_due_cards(args, plan, found))

GetNewCards ==
    /\ Idle
    /\ \E args \in NumArgs \cup {NoArgs}, plan \in FirstFailure(2), found \in CardLists :
           CallTool("get_new_cards", args, get_new_cards(args, plan, found))

GetDeckInfo ==
    /\ Idle
    /\ \E args \in [deckName : {Undef, Str("Test"), Str("Gone")},
                    includeStats : {Undef, Bool(TRUE)}] \cup {NoArgs},
          plan \in FirstFailure(2) :
           CallTool("get_deck_info", args, get_deck_info(args, plan))

ExportDeck ==
    /\ Idle
    /\ \E args \in [deckName : {Undef, Str(""), Str("Test"), Str("Gone")},
                    filePath : {Undef, Str(""), Str("/tmp/test.apkg"),
                                Str("/tmp/TEST.APKG"), Str("/tmp/test.txt")},
                    includeScheduling : {Undef, Bool(FALSE)}] \cup {NoArgs},
          plan \in FirstFailure(2) :
           CallTool("export_deck", args, export_deck(args, plan))

SwitchProfile ==
    /\ Idle
    /\ \E args \in [profileName : {Undef, Str(""), Str("Work"), Str("Nobody")}] \cup {NoArgs},
          plan \in FirstFailure(4),
          active \in {ProfileNames[i] : i \in 1..Len(ProfileNames)},
          loaded \in BOOLEAN :
           CallTool("switch_profile", args, switch_profile(args, plan, active, loaded))

UpdateModelTemplates ==
    /\ Idle
    /\ \E args \in [modelName : {Undef, Str(" "), Str("Basic"), Str("Gone")},
                    templates : {Undef, Obj(<<>>), Obj(<<"Card 1">>)},
                    css : {Undef, Str(".card { color: red; }")}] \cup {NoArgs},
          plan \in FailPlans(3) :
           CallTool("update_model_templates", args, update_model_templates(args, plan))

\* a copy is made while the collection has room for it
DuplicateNote ==
    /\ Idle
    /\ NewNoteId \notin notes
    /\ \E args \in [noteId : {Undef, Num(1), Num(2), Num(9), Str("1")},
                    targetDeck : {Undef, Str("Test")},
                    fieldUpdates : {Undef, [t |-> "object", v |-> [Front |-> "new"]],
                                    [t |-> "object", v |-> [Front |-> ""]]},
                    additionalTags : {Undef, Arr(<<"copy">>)}] \cup {NoArgs},
          plan \in FirstFailure(2),
          absent \in {"omitted", "empty"} :
           CallTool("duplicate_note", args, duplicate_note(args, plan, absent))
UpdateCards ==
    /\ Idle
    /\ \E args \in [answers : {Undef, Arr(<<>>),
                               Arr(<<[cardId |-> 1, ease |-> 3]>>),
                               Arr(<<[cardId |-> 1, ease |-> 3], [cardId |-> 9, ease |-> 1]>>)}]
                       \cup {NoArgs},
          plan \in FirstFailure(1) :
           CallTool("update_cards", args, update_cards(args, plan))

\* a card is added while the collection has room for it
AddCard ==
    /\ Idle
    /\ NewNoteId \notin notes
    /\ \E args \in [front : {Undef, Str("2 + 2")}, back : {Undef, Str("4")}] \cup {NoArgs},
          plan \in FirstFailure(2) :
           CallTool("add_card", args, add_card(args, plan))
\* deck names as callers write them
CreateDeckNames ==
    {Undef, Str(""), Str("  "), Str("Test"), Str("Parent::Child"), Str("Parent::"),
     Str("::Child"), Str("Parent:: ::Child"), Str("Parent::Child::"), Str("::"),
     Str("Parent:Child"), Str(" ::Child")}

\* a deck is created while the collection has its decks of the start
CreateDeck ==
    /\ Idle
    /\ DOMAIN decks = DeckNames
    /\ \E args \in [deckName : CreateDeckNames] \cup {NoArgs}, plan \in FirstFailure(1) :
           CallTool("create_deck", args, create_deck(args, plan))

\* a bag that carries no field
EmptyBag == <<>>

ListDecks ==
    /\ Idle
    /\ \E args \in [includeIds : {Undef, Bool(TRUE)}, includeStats : {Undef, Bool(TRUE)}]
                        \cup {NoArgs},
          plan \in FirstFailure(2) :
           CallTool("list_decks", args, list_decks(args, plan))

GetCollectionStats ==
    /\ Idle
    /\ \E args \in [includeHTML : {Undef, Bool(TRUE)}] \cup {NoArgs},
          plan \in FirstFailure(4) :
           CallTool("get_collection_stats", args, get_collection_stats(args, plan))

GetCardsReviewedToday ==
    /\ Idle
    /\ \E args \in {EmptyBag, NoArgs}, plan \in FirstFailure(1) :
           CallTool("get_cards_reviewed_today", args, get_cards_reviewed_today(plan))

GetReviewHistory ==
    /\ Idle
    /\ \E args \in [days : {Undef, Num(2), Num(400), Str("x")}] \cup {NoArgs},
          plan \in FirstFailure(1) :
           CallTool("get_review_history", args, get_review_history(args, plan))

GetCardReviews ==
    /\ Idle
    /\ \E args \in [cardIds : PluralIds] \cup {NoArgs}, plan \in FirstFailure(1) :
           CallTool("get_card_reviews", args, get_card_reviews(args, plan))

GetLearningStats ==
    /\ Idle
    /\ \E args \in [days : {Undef, Num(2)}, deckName : {Undef, Str(""), Str("Test"), Str("Gone")}]
                        \cup {NoArgs},
          plan \in FirstFailure(3) :
           CallTool("get_learning_stats", args, get_learning_stats(args, plan))

GetAllTags ==
    /\ Idle
    /\ \E args \in [includeUsage : {Undef, Bool(TRUE)}] \cup {NoArgs},
          plan \in FailPlans(3) :
           CallTool("get_all_tags", args, get_all_tags(args, plan))

ListModels ==
    /\ Idle
    /\ \E args \in [includeDetails : {Undef, Bool(TRUE)}] \cup {NoArgs},
          plan \in FirstFailure(2) :
           CallTool("list_models", args, list_models(args, plan))

\* templates as callers write them, each by its keys
TemplateVals ==
    {Undef, Arr(<<>>), Arr(<<Obj(<<"name", "front", "back">>)>>),
     Arr(<<Obj(<<"name", "front", "back">>), Obj(<<"name", "front">>)>>)}

CreateModel ==
    /\ Idle
    /\ \E args \in [modelName : {Undef, Str(""), Str(" "), Str("Basic"), Str("Fresh")},
                    fields : {Undef, Arr(<<>>), Arr(<<Str("Front"), Str("Back")>>)},
                    templates : TemplateVals,
                    isCloze : {Undef, Bool(TRUE)}] \cup {NoArgs},
          plan \in FailPlans(2) :
           CallTool("create_model", args, create_model(args, plan))

GetProfiles ==
    /\ Idle
    /\ \E args \in {EmptyBag, NoArgs}, plan \in FirstFailure(1) :
           CallTool("get_profiles", args, get_profiles(plan))

GetActiveProfile ==
    /\ Idle
    /\ \E args \in {EmptyBag, NoArgs}, plan \in FirstFailure(1),
          active \in {ProfileNames[i] : i \in 1..Len(ProfileNames)} :
           CallTool("get_active_profile", args, get_active_profile(plan, active))

SyncCollection ==
    /\ Idle
    /\ \E args \in [forceSync : {Undef, Bool(TRUE)}] \cup {NoArgs},
          plan \in FirstFailure(1) :
           CallTool("sync_collection", args, sync_collection(args, plan))

ReloadCollection ==
    /\ Idle
    /\ \E args \in {EmptyBag, NoArgs}, plan \in FirstFailure(1) :
           CallTool("reload_collection", args, reload_collection(plan))

\* a request for a name that is not a case of the switch
UnknownTool ==
    /\ Idle
    /\ \E name \in UnknownNames, args \in UnknownArgs \cup {NoArgs} :
           CallTool(name, args, unknown_tool)
\* the addresses read: the three advertised ones and others
ResourceUris ==
    {"anki://search/" \o t :
        t \in {"deckcurrent", "isdue", "isnew", "", "is:due", "tag:x", "deckstroyed"}}
        \cup {"anki://search"}

\* the ReadResourceRequestSchema handler
ReadResource ==
    /\ Idle
    /\ \E uri \in ResourceUris, plan \in FirstFailure(2), found \in CardLists :
           \E h \in {read_resource(uri, plan, found)} :
               /\ req' = [kind |-> "resource", name |-> uri, args |-> NoArgs]
               /\ calls' = h.calls
               /\ out' = h.out
               /\ decks' = DecksAfter(decks, h.calls)
               /\ notes' = NotesAfter(notes, h.calls)
               /\ UNCHANGED inflight

\* the transport delivers the response; the next request can be taken
Reply ==
    /\ ~Idle
    /\ req' = NoReq
    /\ calls' = <<>>
    /\ out' = NoOut
    /\ UNCHANGED <<decks, notes, inflight>>

Init ==
    /\ decks = [n \in DeckNames |-> IF n = "Test" THEN 3 ELSE 1]
    /\ notes = NoteIds
    /\ inflight = NoFlights
    /\ req = NoReq
    /\ calls = <<>>
    /\ out = NoOut

Next ==
    \/ DeleteDeck
    \/ DeleteNotes
    \/ ForgetCards
    \/ GetDeckStats
    \/ GetDeckPerformance
    \/ GetNoteInfoDetailed
    \/ UpdateNoteFields
    \/ AddTagsToNotes
    \/ RemoveTagsFromNotes
    \/ GetCardInfoDetailed
    \/ SuspendCards
    \/ SetCardDueDate
    \/ SetCardEaseFactors
    \/ GetCardIntervals
    \/ GetModelInfo
    \/ GetModelFields
    \/ FindNotes
    \/ FindCardsAdvanced
    \/ GetDueCards
    \/ GetNewCards
    \/ GetDeckInfo
    \/ ExportDeck
    \/ SwitchProfile
    \/ UpdateModelTemplates
    \/ DuplicateNote
    \/ UpdateCards
    \/ AddCard
    \/ CreateDeck
    \/ ListDecks
    \/ GetCollectionStats
    \/ GetCardsReviewedToday
    \/ GetReviewHistory
    \/ GetCardReviews
    \/ GetLearningStats
    \/ GetAllTags
    \/ ListModels
    \/ CreateModel
    \/ GetProfiles
    \/ GetActiveProfile
    \/ SyncCollection
    \/ ReloadCollection
    \/ UnknownTool
    \/ ReadResource
    \/ Reply

Spec == Init /\ [][Next]_vars

----------------------------------------------------------------------------
(* The query translator on its own: every token up to a length             *)

MaxTokenLen == 5

TokenChars == {"d", "e", "c", "k", "i", "s", ":"}

RECURSIVE StringsUpTo(_)
StringsUpTo(n) ==
    IF n = 0 THEN {""}
    ELSE LET T == StringsUpTo(n - 1)
         IN T \cup {t \o c : t \in {u \in T : Len(u) = n - 1}, c \in TokenChars}

Tokens == StringsUpTo(MaxTokenLen) \cup {"deckcurrent", "isdue", "isnew", "deckstroyed"}

InitQuery ==
    /\ decks = [n \in DeckNames |-> IF n = "Test" THEN 3 ELSE 1]
    /\ notes = NoteIds
    /\ inflight = NoFlights
    /\ req \in {[kind |-> "translate", name |-> t, args |-> NoArgs] : t \in Tokens}
    /\ calls = <<>>
    /\ out = NoOut

\* formatQuery applied to the token
Translate ==
    /\ Idle
    /\ req.kind = "translate"
    /\ out' = Ok(formatQuery(req.name))
    /\ UNCHANGED <<decks, notes, req, calls, inflight>>

NextQuery == Translate

SpecQuery == InitQuery /\ [][NextQuery]_vars

----------------------------------------------------------------------------
(* The content sanitizer on its own: every text of a few pieces             *)

MaxPieces == 3

Pieces == {"&lt;", "&gt;", "&amp;", "lt;", "<", ">", "b", " ", "\n", "<div>"}

RECURSIVE TextsUpTo(_)
TextsUpTo(n) ==
    IF n = 0 THEN {""}
    ELSE {t \o p : t \in TextsUpTo(n - 1), p \in Pieces \cup {""}}

InitSanitize ==
    /\ decks = [n \in DeckNames |-> IF n = "Test" THEN 3 ELSE 1]
    /\ notes = NoteIds
    /\ inflight = NoFlights
    /\ req \in {[kind |-> "sanitize", name |-> t, args |-> NoArgs] : t \in TextsUpTo(MaxPieces)}
    /\ calls = <<>>
    /\ out = NoOut

\* cleanWithRegex in the mode m
CleanIn(m, s) == IF m = "lines" THEN cleanWithRegex(s) ELSE cleanWithRegexCollapsing(s)

\* cleanWithRegex applied to the text
Sanitize ==
    /\ Idle
    /\ req.kind = "sanitize"
    /\ out' = Ok([mode |-> "lines", texts |-> <<cleanWithRegex(req.name)>>])
    /\ UNCHANGED <<decks, notes, req, calls, inflight>>

\* the earlier cleanWithRegex applied to the text
SanitizeCollapsing ==
    /\ Idle
    /\ req.kind = "sanitize"
    /\ out' = Ok([mode |-> "collapse", texts |-> <<cleanWithRegexCollapsing(req.name)>>])
    /\ UNCHANGED <<decks, notes, req, calls, inflight>>

\* the same cleanWithRegex applied to its own result
Resanitize ==
    /\ req.kind = "sanitize"
    /\ out.kind = "ok"
    /\ Len(out.result.texts) = 1
    /\ out' = Ok([out.result EXCEPT
                     !.texts = Append(@, CleanIn(out.result.mode, out.result.texts[1]))])
    /\ UNCHANGED <<decks, notes, req, calls, inflight>>

NextSanitize ==
    \/ Sanitize
    \/ SanitizeCollapsing
    \/ Resanitize

SpecSanitize == InitSanitize /\ [][NextSanitize]_vars

----------------------------------------------------------------------------
(* Overlapping requests.  The handler is an async function: it runs until   *)
(* an await, the service answers, and the handler is resumed later.  The     *)
(* source holds no queue and no lock, so a second request can be handed to   *)
(* the handler while the first one is suspended.                             *)

Slots == {1, 2}

\* a handler invocation: pc names the call whose answer it awaits
NotInvoked == [pc |-> "free", args |-> NoArgs, totalCards |-> 0, out |-> NoOut]

\* how the service answers a call: it returns, or it raises one of its errors
Outcomes ==
    {[ok |-> TRUE, em |-> Error("")]} \cup [ok : {FALSE}, em : ServiceErrors]

\* the bags of the overlapping delete_deck requests
OverlapArgs ==
    [deckName : {Str("Test"), Str("Gone")}, confirmDelete : {Undef, Bool(TRUE)}]

\* the call the invocation s issues; the service handles it at once and the
\* answer waits for the handler to be resumed
Issued(s, api, arg, o, ret) ==
    [by |-> s, api |-> api, arg |-> arg, ok |-> o.ok, em |-> o.em, ret |-> ret]

\* the answer the invocation s is resumed with: that of its latest call
Answer(s) ==
    LET mine == {i \in 1..Len(calls) : calls[i].by = s}
    IN  calls[CHOOSE i \in mine : \A j \in mine : i >= j]

\* the catch block of delete_deck
DeleteDeckCatch(e) ==
    IF Includes(e.message, "not found") \/ Includes(e.message, "confirmDelete")
    THEN Err(e)
    ELSE Err(Wrap("Failed to delete deck. Make sure Anki is running and the deck exists.", e))

\* the invocation s ends with the response o
Finished(s, o) == [inflight EXCEPT ![s].pc = "done", ![s].out = o]

\* a delete_deck request is handed to the handler, which runs to its first
\* await: the argument check, the confirmation gate, deckNamesAndIds
Invoke(s) ==
    /\ inflight[s].pc = "free"
    /\ \E args \in OverlapArgs \cup {NoArgs}, o \in Outcomes :
           IF args = NoArgs
           THEN /\ inflight' = [inflight EXCEPT ![s] =
                       [NotInvoked EXCEPT !.pc = "done",
                            !.out = Err(Error(NoArgumentsMsg("delete_deck")))]]
                /\ UNCHANGED calls
           ELSE IF ~Confirmed(args.confirmDelete)
           THEN /\ inflight' = [inflight EXCEPT ![s] =
                       [NotInvoked EXCEPT !.pc = "done", !.args = args,
                            !.out = DeleteDeckCatch(Error(ConfirmDeleteMsg))]]
                /\ UNCHANGED calls
           ELSE /\ inflight' = [inflight EXCEPT ![s] =
                       [NotInvoked EXCEPT !.pc = "deckNamesAndIds", !.args = args]]
                /\ calls' = Append(calls, Issued(s, "deckNamesAndIds", <<>>, o, DeckKeys(decks)))
    /\ UNCHANGED <<decks, notes, req, out>>

\* resumed with allDecks: the existence check, then getDeckStats
AfterDeckNames(s) ==
    /\ inflight[s].pc = "deckNamesAndIds"
    /\ \E c \in {Answer(s)}, o \in Outcomes :
           LET deckName == ToString(inflight[s].args.deckName)
           IN  IF ~c.ok
               THEN inflight' = Finished(s, DeleteDeckCatch(c.em)) /\ UNCHANGED calls
               ELSE IF \A i \in 1..Len(c.ret) : c.ret[i] # deckName
               THEN /\ inflight' = Finished(s, DeleteDeckCatch(Error(
                           "Deck '" \o deckName \o "' not found. Available decks: "
                               \o JoinStrings(c.ret, ", "))))
                    /\ UNCHANGED calls
               ELSE /\ inflight' = [inflight EXCEPT ![s].pc = "getDeckStats"]
                    /\ calls' = Append(calls, Issued(s, "getDeckStats", <<deckName>>, o,
                                                     DeckStats(<<deckName>>)))
    /\ UNCHANGED <<decks, notes, req, out>>

\* resumed with deckStats: totalCards, then deleteDecks, which the service
\* carries out unless it raises
AfterDeckStats(s) ==
    /\ inflight[s].pc = "getDeckStats"
    /\ \E c \in {Answer(s)}, o \in Outcomes :
           LET deckName == ToString(inflight[s].args.deckName)
               present == deckName \in DOMAIN decks
               removed == [present |-> present,
                           cards |-> IF present THEN decks[deckName] ELSE 0]
           IN  IF ~c.ok
               THEN inflight' = Finished(s, DeleteDeckCatch(c.em)) /\ UNCHANGED <<calls, decks>>
               ELSE /\ inflight' = [inflight EXCEPT
                           ![s].pc = "deleteDecks",
                           ![s].totalCards = totalCards(c.ret)]
                    /\ calls' = Append(calls, Issued(s, "deleteDecks", <<deckName>>, o, removed))
                    /\ decks' = IF o.ok THEN [n \in DOMAIN decks \ {deckName} |-> decks[n]]
                                ELSE decks
    /\ UNCHANGED <<notes, req, out>>

\* resumed after deleteDecks: the success report
AfterDelete(s) ==
    /\ inflight[s].pc = "deleteDecks"
    /\ \E c \in {Answer(s)} :
           inflight' = Finished(s,
               IF ~c.ok THEN DeleteDeckCatch(c.em)
               ELSE Ok([success |-> TRUE,
                        deck_name |-> ToString(inflight[s].args.deckName),
                        cards_deleted |-> inflight[s].totalCards]))
    /\ UNCHANGED <<decks, notes, req, calls, out>>

\* the responses of the finished invocations are delivered
Deliver ==
    /\ \E s \in Slots : inflight[s].pc = "done"
    /\ \A s \in Slots : inflight[s].pc \in {"free", "done"}
    /\ inflight' = [s \in Slots |-> NotInvoked]
    /\ calls' = <<>>
    /\ UNCHANGED <<decks, notes, req, out>>

InitOverlap ==
    /\ decks = [n \in DeckNames |-> IF n = "Test" THEN 3 ELSE 1]
    /\ notes = NoteIds
    /\ req = NoReq
    /\ calls = <<>>
    /\ out = NoOut
    /\ inflight = [s \in Slots |-> NotInvoked]

NextOverlap ==
    \/ \E s \in Slots : Invoke(s)
    \/ \E s \in Slots : AfterDeckNames(s)
    \/ \E s \in Slots : AfterDeckStats(s)
    \/ \E s \in Slots : AfterDelete(s)
    \/ Deliver

SpecOverlap == InitOverlap /\ [][NextOverlap]_vars

----------------------------------------------------------------------------
(* Properties                                                               *)

\* the request is a tool call that carries an argument bag
ToolCall(name) == req.kind = "tool" /\ req.name = name /\ req.args # NoArgs

DestructiveOps == {"delete_deck", "delete_notes", "forget_cards"}
MutationCalls  == {"deleteDecks", "deleteNotes", "forgetCards"}

FlagOf(r) == IF r.name = "forget_cards" THEN r.args.confirmReset ELSE r.args.confirmDelete

ConfirmationRequired(name) ==
    /\ out.kind = "error"
    /\ out.msg = IF name = "forget_cards"
                 THEN "Reset requires confirmReset: true to prevent accidental progress loss. This action cannot be undone!"
                 ELSE "Deletion requires confirmDelete: true to prevent accidental deletions. This action cannot be undone!"

\* C1: a destructive operation whose confirmation flag is absent or false
\* fails with the confirmation-required error and has issued no call at all
\* to the collection service.
C1_UnconfirmedIssuesNoCall ==
    \A name \in DestructiveOps :
        (ToolCall(name) /\ FlagOf(req) \in {Undef, Bool(FALSE)})
            => (ConfirmationRequired(name) /\ calls = <<>>)

C1_Witness ==
    /\ ToolCall("forget_cards")
    /\ req.args.confirmReset = Bool(FALSE)
    /\ req.args.cardIds = Arr(<<Num(1)>>)
    /\ ConfirmationRequired("forget_cards")
    /\ calls = <<>>

\* C2: every call to deleteDecks, deleteNotes or forgetCards was issued by a
\* request whose confirmation flag is the boolean true.
C2_MutationOnlyOnBooleanTrue ==
    \A i \in 1..Len(calls) :
        calls[i].api \in MutationCalls => FlagOf(req) = Bool(TRUE)

\* the operations with a singular/plural target and the fields they read
PairFields ==
    [get_deck_stats         |-> <<"deckNames", "deckName">>,
     get_deck_performance   |-> <<"deckNames", "deckName">>,
     get_note_info_detailed |-> <<"noteIds", "noteId">>,
     update_note_fields     |-> <<"noteIds", "noteId">>,
     delete_notes           |-> <<"noteIds", "noteId">>,
     add_tags_to_notes      |-> <<"noteIds", "noteId">>,
     remove_tags_from_notes |-> <<"noteIds", "noteId">>,
     get_card_info_detailed |-> <<"cardIds", "cardId">>,
     suspend_cards          |-> <<"cardIds", "cardId">>,
     set_card_due_date      |-> <<"cardIds", "cardId">>,
     forget_cards           |-> <<"cardIds", "cardId">>,
     set_card_ease_factors  |-> <<"cardIds", "cardId">>,
     get_card_intervals     |-> <<"cardIds", "cardId">>,
     get_model_info         |-> <<"modelNames", "modelName">>,
     get_model_fields       |-> <<"modelNames", "modelName">>]

PairOps == DOMAIN PairFields

PluralOf(r)   == r.args[PairFields[r.name][1]]
SingularOf(r) == r.args[PairFields[r.name][2]]

\* the error names both accepted field names
NamesBothFields(name) ==
    /\ out.kind = "error"
    /\ Includes(out.msg, "'" \o PairFields[name][1] \o "'")
    /\ Includes(out.msg, "'" \o PairFields[name][2] \o "'")

\* the request passed its confirmation gate, if it has one
PastGate == req.name \in DestructiveOps => FlagOf(req) = Bool(TRUE)

\* C3: every operation with a singular/plural pair uses the plural field if
\* it is an array, otherwise wraps the singular field if it is present, and
\* otherwise fails with an error naming both fields without calling the
\* collection service.
C3_UniformPairRule ==
    \A name \in PairOps :
        (ToolCall(name) /\ PastGate) =>
            IF IsArray(PluralOf(req)) \/ SingularOf(req) \notin {Undef, Null}
            THEN ~NamesBothFields(name)
            ELSE NamesBothFields(name) /\ calls = <<>>

\* the branch of the dispatcher for a pair operation
PairBranch(name, args, plan) ==
    CASE name = "get_deck_stats"         -> get_deck_stats(args, plan)
      [] name = "get_deck_performance"   -> get_deck_performance(args, plan)
      [] name = "get_note_info_detailed" -> get_note_info_detailed(args, plan)
      [] name = "update_note_fields"     -> update_note_fields(args, plan)
      [] name = "delete_notes"           -> delete_notes(args, plan)
      [] name = "add_tags_to_notes"      -> add_tags_to_notes(args, plan)
      [] name = "remove_tags_from_notes" -> remove_tags_from_notes(args, plan)
      [] name = "get_card_info_detailed" -> get_card_info_detailed(args, plan)
      [] name = "suspend_cards"          -> suspend_cards(args, plan)
      [] name = "set_card_due_date"      -> set_card_due_date(args, plan)
      [] name = "forget_cards"           -> forget_cards(args, plan)
      [] name = "set_card_ease_factors"  -> set_card_ease_factors(args, plan)
      [] name = "get_card_intervals"     -> get_card_intervals(args, plan)
      [] name = "get_model_info"         -> get_model_info(args, plan)
      [] OTHER                           -> get_model_fields(args, plan)

\* the request r with its singular target moved into a one-element array
AsPlural(r) ==
    [r.args EXCEPT ![PairFields[r.name][1]] = Arr(<<SingularOf(r)>>),
                   ![PairFields[r.name][2]] = Undef]

\* C4: a request that supplies only the singular field with an identifier or
\* name v issues the calls and gets the response of the request that
\* supplies only the plural field with the array [v].
C4_SingularSameAsPlural ==
    \A name \in PairOps :
        (ToolCall(name) /\ PluralOf(req) = Undef /\ SingularOf(req) \in IdVals \cup NameVals)
            => \E plan \in FailPlans(2 * MaxIds) :
                   LET h == PairBranch(name, AsPlural(req), plan)
                   IN  h.calls = calls /\ h.out = out

\* C5: formatQuery(t) is "deck:" and t without its first 4 characters when t
\* starts with "deck", else "is:" and t without its first 2 characters when
\* t starts with "is", else t; deckcurrent, isdue and isnew give
\* deck:current, is:due and is:new.
C5_FormatQuery ==
    (req.kind = "translate" /\ out.kind = "ok") =>
        LET t == req.name
            q == out.result
            \* q is the prefix p, then t from its character n + 1 on
            Shifted(p, n) ==
                /\ Len(q) = Len(p) + Len(t) - n
                /\ SubSeq(q, 1, Len(p)) = p
                /\ \A i \in (n + 1)..Len(t) : CharAt(q, Len(p) + i - n) = CharAt(t, i)
        IN  /\ IF Len(t) >= 4 /\ SubSeq(t, 1, 4) = "deck" THEN Shifted("deck:", 4)
               ELSE IF Len(t) >= 2 /\ SubSeq(t, 1, 2) = "is" THEN Shifted("is:", 2)
               ELSE q = t
            /\ t = "deckcurrent" => q = "deck:current"
            /\ t = "isdue" => q = "is:due"
            /\ t = "isnew" => q = "is:new"

C5_Witness ==
    /\ req.kind = "translate"
    /\ req.name = "deckcurrent"
    /\ out.kind = "ok"
    /\ out.result = "deck:current"

\* C6: get_due_cards searches with exactly is:due and get_new_cards with
\* exactly is:new, the queries the resources isdue and isnew pass.
C6_DueAndNewQueries ==
    /\ (ToolCall("get_due_cards") /\ Len(calls) > 0) => calls[1].arg = "is:due"
    /\ (ToolCall("get_new_cards") /\ Len(calls) > 0) => calls[1].arg = "is:new"

FindOps == {"find_notes", "find_cards_advanced"}

\* C7: find_notes and find_cards_advanced never return more than 1000 ids,
\* never more than the supplied limit, and at most 100 without a limit.
C7_LimitBounds ==
    \A name \in FindOps :
        (ToolCall(name) /\ out.kind = "ok") =>
            LET supplied == ToNumber(req.args.limit)
                count == Len(out.result.ids)
            IN  /\ count <= 1000
                /\ (req.args.limit # Undef /\ supplied.t = "number") => count <= supplied.v
                /\ req.args.limit = Undef => count <= 100

\* C8: the returned ids are the first k ids of the service's answer, k the
\* smaller of the effective limit and the number of matches; total_found is
\* the number of matches, returned_count is k, and truncated holds exactly
\* when an id was left out.
C8_FirstKOfMatches ==
    \A name \in FindOps :
        (ToolCall(name) /\ out.kind = "ok") =>
            LET found == calls[1].ret
                limit == EffectiveLimit(req.args.limit).v
                k == IF limit < Len(found) THEN limit ELSE Len(found)
            IN  /\ out.result.ids = SubSeq(found, 1, k)
                /\ out.result.total_found = Len(found)
                /\ out.result.returned_count = k
                /\ out.result.truncated = (Len(out.result.ids) < Len(found))

\* the ease factors a request asks for: the elements of easeFactors, or the
\* single easeFactor
RequestedEases(args) ==
    IF IsArray(args.easeFactors) THEN MapNumber(args.easeFactors.v)
    ELSE IF args.easeFactor # Undef THEN <<ToNumber(args.easeFactor)>>
    ELSE <<>>

\* C9: set_card_ease_factors fails with an error that mentions the range
\* 1300-4000, and issues no call, whenever a requested ease factor is below
\* 1300 or above 4000.
C9_EaseOutOfRangeRejected ==
    (/\ ToolCall("set_card_ease_factors")
     /\ \E i \in 1..Len(RequestedEases(req.args)) :
            LET e == RequestedEases(req.args)[i]
            IN  e.t = "number" /\ (e.v < 1300 \/ e.v > 4000))
        => (out.kind = "error" /\ Includes(out.msg, "1300-4000") /\ calls = <<>>)

C9_Witness ==
    /\ ToolCall("set_card_ease_factors")
    /\ req.args.cardIds = Arr(<<Num(1), Num(2)>>)
    /\ req.args.easeFactors = Arr(<<Num(1300), Num(4001)>>)
    /\ out.kind = "error"
    /\ Includes(out.msg, "Ease factor 4001 is outside typical range (1300-4000)")
    /\ calls = <<>>

\* the notes a request asks to update
RequestedNotes(args) ==
    IF IsArray(args.noteIds) THEN MapNumber(args.noteIds.v) ELSE <<ToNumber(args.noteId)>>

\* C10: update_note_fields attempts the update of every requested note once
\* and in request order, whatever failed before, and returns a result with
\* one entry per note and counts that add up to the number of notes.
C10_EveryNoteAttempted ==
    (/\ ToolCall("update_note_fields")
     /\ IsArray(req.args.noteIds) \/ Truthy(req.args.noteId)
     /\ req.args.fields = Obj(<<"Front">>))
        => LET ids == RequestedNotes(req.args)
               res == out.result
           IN  /\ out.kind = "ok"
               /\ Len(calls) = Len(ids)
               /\ Len(res.results) = Len(ids)
               /\ \A i \in 1..Len(ids) :
                      /\ calls[i].api = "updateNoteFields"
                      /\ calls[i].arg.id = ids[i]
                      /\ res.results[i].note_id = ids[i]
                      /\ res.results[i].success = calls[i].ok
                      /\ ~calls[i].ok => res.results[i].error # ""
               /\ res.total_notes = Len(ids)
               /\ res.successful_updates = Cardinality({i \in 1..Len(ids) : calls[i].ok})
               /\ res.successful_updates + res.failed_updates = res.total_notes

C10_Witness ==
    /\ ToolCall("update_note_fields")
    /\ req.args.noteIds = Arr(<<Num(1), Num(2)>>)
    /\ Len(calls) = 2
    /\ ~calls[1].ok
    /\ calls[2].ok
    /\ out.kind = "ok"
    /\ out.result.failed_updates = 1
    /\ out.result.successful_updates = 1


----------------------------------------------------------------------------
(* The dispatcher's edges                                                   *)

\* C11: a request for a name outside the catalog, whatever its argument bag
\* (an absent one included), fails with the unknown-operation error and
\* issues no call.
C11_UnknownNameRejected ==
    (req.kind = "tool" /\ req.name \notin ToolCatalog)
        => (out.kind = "error" /\ out.msg = UnknownToolMsg /\ calls = <<>>)

\* C12: a read of an address other than the three advertised ones fails with
\* the invalid-resource error and issues no query to the collection service.
C12_OnlyAdvertisedServed ==
    (req.kind = "resource" /\ req.name \notin AdvertisedResources)
        => (out.kind = "error" /\ out.msg = InvalidResourceMsg /\ calls = <<>>)

\* C13: a successful resource read asked the service for the translated
\* query and returns one entry for each card the service reported, no other,
\* with question and answer sanitized and due values non-decreasing.
C13_ResourceReadCards ==
    (req.kind = "resource" /\ out.kind = "ok")
        => LET found == calls[1].ret
               cards == out.result.cards
           IN  /\ calls[1].api = "findCards"
               /\ calls[1].arg = formatQuery(LastSegment(UrlPathname(req.name)))
               /\ Len(cards) = Len(found)
               /\ {cards[i].cardId : i \in 1..Len(cards)} = {found[i] : i \in 1..Len(found)}
               /\ \A i \in 1..Len(cards) :
                      /\ cards[i].question = cleanWithRegex(CardQuestion(cards[i].cardId))
                      /\ cards[i].answer = cleanWithRegex(CardAnswer(cards[i].cardId))
                      /\ cards[i].due = CardDue(cards[i].cardId)
                      /\ ~Includes(cards[i].answer, "<div>")
               /\ \A i \in 1..(Len(cards) - 1) : cards[i].due <= cards[i + 1].due

C13_Witness ==
    /\ req.kind = "resource"
    /\ req.name = "anki://search/isdue"
    /\ out.kind = "ok"
    /\ calls[1].ret = <<1, 2, 3>>
    /\ Len(out.result.cards) = 3
    /\ out.result.cards[1].cardId = 2
    /\ out.result.cards[1].question = "<b> &amp;"
    /\ out.result.cards[2].cardId = 3
    /\ out.result.cards[2].question = "a b"
    /\ out.result.cards[3].cardId = 1
    /\ out.result.cards[3].question = "2"
    /\ out.result.cards[3].answer = "4"

\* the ConfirmationRequired and NotFound messages the operation of the
\* request can raise itself
LocalErrors ==
    IF req.kind # "tool" \/ req.args = NoArgs THEN {}
    ELSE IF req.name \in {"delete_deck", "get_deck_info", "export_deck"}
         THEN {ConfirmDeleteMsg, DeckNotFoundMsg(ToString(req.args.deckName), decks)}
    ELSE IF req.name = "delete_notes" THEN {ConfirmDeleteMsg}
    ELSE IF req.name = "forget_cards" THEN {ConfirmResetMsg}
    ELSE IF req.name = "switch_profile"
         THEN {ProfileNotFoundMsg(ToString(req.args.profileName))}
    ELSE IF req.name = "update_model_templates"
         THEN {ModelNotFoundMsg(ToString(req.args.modelName))}
    ELSE IF req.name = "duplicate_note"
         THEN {"Note with ID " \o ToString(ToNumber(req.args.noteId)) \o " not found"}
    ELSE {}

\* C14: an error an operation raised itself as ConfirmationRequired or
\* NotFound reaches the caller with its original message, not wrapped in the
\* operation's 'Failed to ...' message.
C14_LocalErrorsUnmodified ==
    \A m \in LocalErrors :
        (out.kind = "error" /\ Includes(out.msg, m)) => out.msg = m

\* C15: when a call to the collection service raised an exception and the
\* request failed, the caller receives a wrapped message of the operation,
\* never the service's exception unchanged.
C15_UpstreamErrorsWrapped ==
    (out.kind = "error" /\ \E i \in 1..Len(calls) : ~calls[i].ok)
        => \A e \in ServiceErrors : out.msg # e.message

\* the request r names a deck, note or card that the collection (as it is
\* when the request arrives) does not have
MissingTarget(r) ==
    IF r.name = "delete_deck" THEN ToString(r.args.deckName) \notin DOMAIN decks
    ELSE IF r.name = "delete_notes"
         THEN LET ids == ResolveIds(r.args.noteIds, r.args.noteId)
              IN  ids.ok /\ \E i \in 1..Len(ids.v) : ~KnownNote(ids.v[i])
    ELSE LET ids == ResolveIds(r.args.cardIds, r.args.cardId)
         IN  ids.ok /\ \E i \in 1..Len(ids.v) : ~KnownCard(ids.v[i])

\* C16: a confirmed destructive request that names a deck, note or card the
\* collection does not have, and whose calls the service answered, fails
\* with a NotFound error, and the destructive call is never issued.
C16_ExistenceCheckedFirst ==
    [][(/\ req'.kind = "tool"
        /\ req'.name \in DestructiveOps
        /\ req'.args # NoArgs
        /\ Confirmed(FlagOf(req'))
        /\ MissingTarget(req')
        /\ \A i \in 1..Len(calls') : calls'[i].ok)
           => (/\ out'.kind = "error"
               /\ Includes(out'.msg, "not found")
               /\ \A i \in 1..Len(calls') : calls'[i].api \notin MutationCalls)]_vars

\* the scalar fields the catalog's inputSchema of a tool lists as required
RequiredScalars(name) ==
    CASE name = "add_card" -> {"front", "back"}
      [] name \in {"get_due_cards", "get_new_cards"} -> {"num"}
      [] name \in {"get_deck_info", "create_deck"} -> {"deckName"}
      [] name = "delete_deck" -> {"deckName", "confirmDelete"}
      [] name \in {"find_notes", "find_cards_advanced"} -> {"query"}
      [] name = "delete_notes" -> {"confirmDelete"}
      [] name = "forget_cards" -> {"confirmReset"}
      [] name = "duplicate_note" -> {"noteId"}
      [] name = "suspend_cards" -> {"suspend"}
      [] name = "set_card_due_date" -> {"days"}
      [] name = "update_model_templates" -> {"modelName"}
      [] name = "switch_profile" -> {"profileName"}
      [] name = "export_deck" -> {"deckName", "filePath"}
      [] OTHER -> {}

\* C17: a request that lacks a scalar field its tool's schema requires fails
\* and issues no call to the collection service.
C17_RequiredScalarChecked ==
    (/\ req.kind = "tool"
     /\ req.args # NoArgs
     /\ \E f \in RequiredScalars(req.name) : req.args[f] = Undef)
        => (out.kind = "error" /\ calls = <<>>)

\* the name is non-empty after trimming, and so is each of its segments
WellFormedDeckName(name) ==
    /\ Trim(name) # ""
    /\ \A i \in 1..Len(Split(name, "::")) : Trim(Split(name, "::")[i]) # ""

\* C18: createDeck is called only with a name that is non-empty after
\* trimming and whose '::' segments are all non-empty after trimming; a
\* create_deck request with another name fails with the validation error
\* and issues no call.
C18_DeckNameValidated ==
    /\ \A i \in 1..Len(calls) :
           calls[i].api = "createDeck" => WellFormedDeckName(calls[i].arg)
    /\ (ToolCall("create_deck") /\ ~WellFormedDeckName(ToString(req.args.deckName)))
           => /\ out.kind = "error"
              /\ \/ Includes(out.msg, DeckNameEmptyMsg)
                 \/ Includes(out.msg, DeckNameFormatMsg)
              /\ calls = <<>>

C18_Witness ==
    /\ ToolCall("create_deck")
    /\ req.args.deckName = Str("Parent:: ::Child")
    /\ out.kind = "error"
    /\ Includes(out.msg, DeckNameFormatMsg)
    /\ calls = <<>>

\* C19: sanitizing a text a second time changes nothing:
\* cleanWithRegex(cleanWithRegex(x)) = cleanWithRegex(x) for every text x
C19_SanitizerIdempotent ==
    (req.kind = "sanitize" /\ out.kind = "ok" /\ Len(out.result.texts) = 2)
        => out.result.texts[2] = out.result.texts[1]

\* C20: the names the catalog advertises are the names the dispatcher has a
\* branch for: a request for a cataloged name never ends in the
\* unknown-operation branch, and a request that carries an argument bag ends
\* there exactly when its name is not cataloged.
C20_CatalogMatchesDispatcher ==
    /\ DispatcherCases = ToolCatalog
    /\ (req.kind = "tool" /\ req.name \in ToolCatalog) => out.msg # UnknownToolMsg
    /\ (req.kind = "tool" /\ req.name \notin ToolCatalog /\ req.args # NoArgs)
           => (out.kind = "error" /\ out.msg = UnknownToolMsg /\ calls = <<>>)

C20_Witness ==
    /\ ToolCall("sync_collection")
    /\ out.kind = "ok"
    /\ Len(calls) = 1
    /\ calls[1].api = "sync"

\* the invocations that have issued a call and have not produced their result
Underway == {s \in Slots : inflight[s].pc \notin {"free", "done"}}

\* C21: requests are handled one at a time: while one request's handling is
\* under way no other request's handling issues a call, so the calls of two
\* requests never interleave.
C21_OneRequestAtATime ==
    /\ Cardinality(Underway) <= 1
    /\ \A i, j, k \in 1..Len(calls) :
           (i < j /\ j < k /\ calls[i].by = calls[k].by) => calls[j].by = calls[i].by

\* the result of the request reports the failure of its i-th call for the
\* item the call was made for
CarriesFailure(i) ==
    \/ /\ req.name = "update_note_fields"
       /\ ~out.result.results[i].success
       /\ out.result.results[i].error # ""
    \/ /\ req.name = "get_all_tags"
       /\ i > 1
       /\ \E k \in 1..Len(out.result.tags_with_usage) :
              /\ out.result.tags_with_usage[k].tag = AllTags[i - 1]
              /\ out.result.tags_with_usage[k].error # ""

\* C22: no operation swallows a failure: when a call it issued raised an
\* error, the operation fails or its result reports that failure for the
\* affected item.
C22_NoSilentFailure ==
    (req.kind \in {"tool", "resource"} /\ out.kind = "ok")
        => \A i \in 1..Len(calls) : ~calls[i].ok => CarriesFailure(i)

\* C23: create_model asks for a name no model has: when the service lists a
\* model of the requested name, the request fails with an 'already exists'
\* error and createModel is never called.
C23_UniqueModelName ==
    (/\ ToolCall("create_model")
     /\ ToString(req.args.modelName) \in ModelNames
     /\ \E i \in 1..Len(calls) : calls[i].api = "modelNames" /\ calls[i].ok)
        => /\ out.kind = "error"
           /\ Includes(out.msg, "already exists")
           /\ \A i \in 1..Len(calls) : calls[i].api # "createModel"

\* C24: the note duplicate_note hands to addNote goes to targetDeck when one
\* is given and to the deck of the original note otherwise; it has the
\* original's model, the original's fields with fieldUpdates applied, and the
\* original's tags followed by additionalTags.
C24_CopyOfOriginal ==
    ToolCall("duplicate_note") =>
        \A i \in 1..Len(calls) :
            calls[i].api = "addNote" =>
                \E n \in {ToNumber(req.args.noteId).v} :
                    /\ calls[i].arg.deckName =
                           IF Truthy(req.args.targetDeck) THEN ToString(req.args.targetDeck)
                           ELSE NoteDeck(n)
                    /\ calls[i].arg.modelName = NoteModel(n)
                    /\ \A f \in DOMAIN NoteFields(n) :
                           calls[i].arg.fields[f] =
                               IF Truthy(req.args.fieldUpdates) /\ f \in DOMAIN req.args.fieldUpdates.v
                               THEN req.args.fieldUpdates.v[f] ELSE NoteFields(n)[f]
                    /\ calls[i].arg.tags =
                           NoteTags(n) \o (IF Truthy(req.args.additionalTags)
                                           THEN req.args.additionalTags.v ELSE <<>>)

\* C25: the identifiers are normalised before the confirmation is looked at: a
\* delete_notes or forget_cards request with neither identifier field nor
\* confirmation flag is refused for the missing identifiers, not for the
\* missing confirmation.
C25_NormalizeBeforeGate ==
    /\ (/\ ToolCall("delete_notes")
        /\ req.args.noteIds = Undef /\ req.args.noteId = Undef
        /\ req.args.confirmDelete = Undef)
           => (out.kind = "error" /\ Includes(out.msg, EitherNoteIdsMsg))
    /\ (/\ ToolCall("forget_cards")
        /\ req.args.cardIds = Undef /\ req.args.cardId = Undef
        /\ req.args.confirmReset = Undef)
           => (out.kind = "error" /\ Includes(out.msg, EitherCardIdsMsg))

DeleteDeckCalls == <<"deckNamesAndIds", "getDeckStats", "deleteDecks">>

\* C26: a confirmed delete_deck of a deck the service lists issues
\* deckNamesAndIds, getDeckStats and deleteDecks, each once and in this order,
\* and stops at the first call that fails; when all three succeed,
\* cards_deleted is the total_in_deck the stats call returned, 0 when it
\* returned no entry.
C26_DeleteDeckSequence ==
    (/\ ToolCall("delete_deck")
     /\ Confirmed(req.args.confirmDelete)
     /\ Len(calls) > 0
     /\ calls[1].ok => \E k \in 1..Len(calls[1].ret) :
                           calls[1].ret[k] = ToString(req.args.deckName))
        => /\ Len(calls) <= 3
           /\ \A i \in 1..Len(calls) :
                  /\ calls[i].api = DeleteDeckCalls[i]
                  /\ i > 1 => calls[i].arg = <<ToString(req.args.deckName)>>
                  /\ i < Len(calls) => calls[i].ok
           /\ Len(calls) < 3 => ~calls[Len(calls)].ok
           /\ (out.kind = "ok") = (Len(calls) = 3 /\ calls[3].ok)
           /\ out.kind = "ok" =>
                  out.result.cards_deleted =
                      IF Len(calls[2].ret) = 0 THEN 0 ELSE calls[2].ret[1].total_in_deck

\* a deck of three cards deleted, the stats call having reported them
C26_Witness ==
    /\ ToolCall("delete_deck")
    /\ Len(calls) = 3
    /\ calls[3].ok
    /\ Len(calls[2].ret) = 1
    /\ out.kind = "ok"
    /\ out.result.cards_deleted = 3

\* the operations named as reads
ReadOnlyOps ==
    {name \in DispatcherCases :
        StartsWith(name, "get_") \/ StartsWith(name, "list_") \/ StartsWith(name, "find_")}

\* the calls of the collection service that only report
QueryCalls ==
    {"cardsInfo", "deckNames", "deckNamesAndIds", "findCards", "findModelsById",
     "findModelsByName", "findNotes", "getActiveProfile", "getCollectionStatsHTML",
     "getDeckStats", "getIntervals", "getNumCardsReviewedByDay",
     "getNumCardsReviewedToday", "getProfiles", "getReviewsOfCards", "getTags",
     "modelFieldFonts", "modelFieldNames", "modelNames", "modelNamesAndIds",
     "notesInfo"}

\* C27: a tool whose name starts with get_, list_ or find_, and a resource
\* read, issues only query calls, whatever its arguments and whether it
\* succeeds or fails, and leaves the decks and notes of the collection as
\* they were.
C27_ReadsOnlyQuery ==
    [][(req'.kind = "resource" \/ (req'.kind = "tool" /\ req'.name \in ReadOnlyOps))
          => /\ \A i \in 1..Len(calls') : calls'[i].api \in QueryCalls
             /\ decks' = decks
             /\ notes' = notes]_vars

\* a performance report of all decks: three queries, answered
C27_Witness ==
    /\ ToolCall("get_deck_performance")
    /\ Len(calls) = 3
    /\ out.kind = "ok"

\* C28: whenever set_card_ease_factors calls setEaseFactors, the list of ease
\* factors is as long as the list of card ids and each of its elements is a
\* number from 1300 to 4000.
C28_EaseFactorsWellFormed ==
    ToolCall("set_card_ease_factors") =>
        \A i \in 1..Len(calls) :
            calls[i].api = "setEaseFactors" =>
                /\ Len(calls[i].arg.easeFactors) = Len(calls[i].arg.cards)
                /\ \A j \in 1..Len(calls[i].arg.easeFactors) :
                       /\ calls[i].arg.easeFactors[j].t = "number"
                       /\ calls[i].arg.easeFactors[j].v >= MinEase
                       /\ calls[i].arg.easeFactors[j].v <= MaxEase

\* the invocations that reported success
Succeeded == {s \in Slots : inflight[s].pc = "done" /\ inflight[s].out.kind = "ok"}

\* C29: when the handlers of two requests interleave at their calls, the
\* existence check of delete_deck still holds when deleteDecks is issued:
\* deleteDecks is issued only for a deck the collection has at that moment,
\* two overlapping requests for the same deck do not both report success, and
\* cards_deleted is the number of cards the deck had when it was deleted.
C29_CheckHoldsAtMutation ==
    /\ \A i \in 1..Len(calls) : calls[i].api = "deleteDecks" => calls[i].ret.present
    /\ \A s, t \in Succeeded :
           s # t => inflight[s].args.deckName # inflight[t].args.deckName
    /\ \A s \in Succeeded : inflight[s].out.result.cards_deleted = Answer(s).ret.cards

\* the operations that take no inputs, or optional inputs only
NoInputOps ==
    {"get_profiles", "get_active_profile", "reload_collection",
     "get_cards_reviewed_today", "list_decks", "list_models", "get_all_tags"}

\* C30: an operation that needs no inputs, requested without an argument bag,
\* fails only if a call to the collection service fails: the missing bag
\* alone does not make it fail.
C30_NoBagNeeded ==
    (req.kind = "tool" /\ req.name \in NoInputOps /\ req.args = NoArgs)
        => \/ out.kind = "ok"
           \/ \E i \in 1..Len(calls) : ~calls[i].ok

====
